---------------------------- MODULE Spec2Model ----------------------------
(* RevolutionAgent: lesson store, classifier, patch engine, pipeline and   *)
(* git synchronisation of one environment, modelled from src/revolution.   *)
(*                                                                         *)
(* Text is a sequence of tokens.  NL is a line boundary, Txt(s) a run of   *)
(* characters without a line boundary, Lines(n) stands for n complete      *)
(* lines of externally owned text.  Paths and categories are sequences of  *)
(* their "/"-separated segments, so split("/") and startswith("skills/")   *)
(* are computed on the segments.                                           *)
EXTENDS Integers, Sequences, FiniteSets, TLC

(* ------------------------------ bounds -------------------------------- *)
MaxCaptures == 2
MaxClock == 1
MaxDirect == 2
TicksPerMinute == 2
MaxPid == 2
MaxLoopRuns == 2
MaxRuns == 102
MaxFailures == 1

(* ------------------------- program constants -------------------------- *)
MAX_LINES == 1000
KEEP_ENTRIES == 100

(* ------------------------------- text --------------------------------- *)
NL == <<"nl">>
Txt(s) == <<"txt", s>>
Lines(n) == <<"lines", n>>

None == <<>>
(* a path at which no file exists *)
NoFile == << <<"nofile">> >>

RECURSIVE SumTo(_, _)
SumTo(f, n) == IF n = 0 THEN 0 ELSE f[n] + SumTo(f, n - 1)

(* number of line boundaries a token contributes *)
Breaks(tok) == IF tok = NL THEN 1 ELSE IF tok[1] = "lines" THEN tok[2] ELSE 0

(* len(text.splitlines()): one line per boundary, plus the unterminated   *)
(* last line when the text does not end in a boundary                     *)
CountLines(text) ==
    LET n == Len(text)
        b == [i \in 1..n |-> Breaks(text[i])]
        open == n > 0 /\ text[n] # NL /\ text[n][1] # "lines"
    IN SumTo(b, n) + (IF open THEN 1 ELSE 0)

(* ----------------------------- taxonomy ------------------------------- *)
CODING == <<"rules", "coding_guide.md">>
SAFETY == <<"rules", "safety.md">>
DEEPSCAN == <<"skills", "deep_scan", "SKILL.md">>
BROWSER == <<"skills", "browser_test", "SKILL.md">>
PDCA == <<"rules", "pdca_workflow.md">>
MEMORY == <<"rules", "memory.md">>
INTERACTION == <<"rules", "interaction.md">>
ROUTER == <<"rules", "model_router.md">>

CATEGORY_MAP ==
    (<<"python", "dependency">> :> CODING) @@
    (<<"python", "syntax">> :> CODING) @@
    (<<"python", "runtime">> :> CODING) @@
    (<<"js", "dependency">> :> CODING) @@
    (<<"js", "syntax">> :> CODING) @@
    (<<"security", "api">> :> SAFETY) @@
    (<<"security", "auth">> :> SAFETY) @@
    (<<"security", "injection">> :> SAFETY) @@
    (<<"architecture", "structure">> :> DEEPSCAN) @@
    (<<"architecture", "pattern">> :> DEEPSCAN) @@
    (<<"testing", "unit">> :> BROWSER) @@
    (<<"testing", "ui">> :> BROWSER) @@
    (<<"testing", "integration">> :> BROWSER) @@
    (<<"workflow", "pdca">> :> PDCA) @@
    (<<"workflow", "git">> :> MEMORY) @@
    (<<"interaction", "prompt">> :> INTERACTION) @@
    (<<"model", "config">> :> ROUTER)

(* CATEGORY_MAP.get(category) *)
MapGet(category) ==
    IF category \in DOMAIN CATEGORY_MAP THEN CATEGORY_MAP[category] ELSE None

(* no path counts as a skill *)
IsSkillPath_Never(target) == FALSE

(* target.startswith("skills/") *)
IsSkillPath(target) == Len(target) > 1 /\ target[1] = "skills"

(* the artifacts the patch engine can address *)
Targets == {CATEGORY_MAP[c] : c \in DOMAIN CATEGORY_MAP}

(* ------------------------------ inputs -------------------------------- *)
(* what cmd_capture is called with: category, error text, tags *)
CaptureInputs ==
    { [category |-> <<"python", "dependency">>,
       error |-> <<Txt("boom")>>, tags |-> <<>>],
      [category |-> <<"js", "dependency">>,
       error |-> <<Txt("trace"), NL, Txt("boom")>>, tags |-> <<"npm">>],
      [category |-> <<"architecture", "structure">>,
       error |-> <<Txt("boom")>>, tags |-> <<>>],
      [category |-> <<"foo", "bar">>,
       error |-> <<Txt("boom")>>, tags |-> <<>>] }

Solution == <<Txt("fix")>>

(* alphabetical order of the topics that occur, for sorted(glob) *)
TopicOrder ==
    <<"api", "auth", "bar", "config", "dependency", "git", "injection",
      "integration", "orphan", "pattern", "pdca", "prompt", "python",
      "runtime", "structure", "syntax", "ui", "unit", "x">>
TopicRank(t) == CHOOSE i \in 1..Len(TopicOrder) : TopicOrder[i] = t

(* categories cmd_capture may be given: the taxonomy, two outside it,   *)
(* and one without a "/"                                                *)
AnalyzeCategories ==
    DOMAIN CATEGORY_MAP \cup {<<"foo", "bar">>, <<"skills", "x">>, <<"python">>}

Procs == {"cli"}

(* a command typed by the user and the child of a scheduled run *)
Overlapping == {"cli", "child"}
GitFailures == {"none", "norepo", "pull", "add", "commit", "push"}


(* ------------------------------ capture ------------------------------- *)
(* _now_id(): strftime("%y%m%d-%H%M") keeps the minute and drops the rest *)
NowId(t) == t \div TicksPerMinute

(* the clock starts on the last tick of a minute *)
StartClock == 2 * TicksPerMinute - 1

(* _now_iso(): full-resolution timestamp *)
NowIso(t) == <<t>>

(* topic = category.split("/")[-1] if "/" in category else category *)
Topic(category) == category[Len(category)]

(* lesson_id = f"{_now_id()}_{topic}" *)
LessonId(t, category) == <<NowId(t), Topic(category)>>

(* the dict create_lesson builds and dumps *)
NewLesson(t, category, error, tags) ==
    LET target == MapGet(category)
        skill == IsSkillPath(target)
    IN [ id |-> LessonId(t, category),
         error |-> error,
         solution |-> Solution,
         category |-> category,
         tags |-> tags,
         target_rule |-> IF skill THEN None ELSE target,
         target_skill |-> IF skill THEN target ELSE None,
         applied |-> FALSE,
         applied_at |-> None,
         source_env |-> "local",
         created_at |-> NowIso(t) ]

(* out.write_text(...): the file named after the id is created or replaced *)
WriteFile(store, id, rec) ==
    [i \in DOMAIN store \cup {id} |-> IF i = id THEN rec ELSE store[i]]

(* order of sorted(lessons_dir.glob("*.json")): by file name *)
NameBefore(a, b) ==
    \/ a[1] < b[1]
    \/ a[1] = b[1] /\ TopicRank(a[2]) < TopicRank(b[2])

RECURSIVE SortedNames(_)
SortedNames(S) ==
    IF S = {} THEN <<>>
    ELSE LET m == CHOOSE x \in S : \A y \in S \ {x} : NameBefore(x, y)
         IN <<m>> \o SortedNames(S \ {m})

(* json.loads of each file in that order, skipping applied ones if asked *)
RECURSIVE SelectIds(_, _, _)
SelectIds(names, store, onlyPending) ==
    IF names = <<>> THEN <<>>
    ELSE LET data == store[Head(names)]
             rest == SelectIds(Tail(names), store, onlyPending)
         IN IF onlyPending /\ data.applied THEN rest ELSE <<data>> \o rest

(* the only_pending filter is dropped *)
list_lessons_All(store, onlyPending) ==
    SelectIds(SortedNames(DOMAIN store), store, FALSE)

(* list_lessons(lessons_dir, only_pending) *)
list_lessons(store, onlyPending) ==
    SelectIds(SortedNames(DOMAIN store), store, onlyPending)

(* ----------------------------- analyzer ------------------------------- *)
(* lesson.get("category", ""): the empty string when the key is absent *)
GetCategory(lesson) ==
    IF "category" \in DOMAIN lesson THEN lesson.category ELSE <<>>

(* a category outside the taxonomy falls back to the coding guide *)
analyze_lesson_DefaultTarget(lesson) ==
    LET found == MapGet(GetCategory(lesson))
        target == IF found # None THEN found ELSE CODING
    IN [ id |-> lesson.id, category |-> GetCategory(lesson),
         target |-> target,
         target_type |-> IF IsSkillPath(target) THEN "skill" ELSE "rule",
         action |-> "append", ready |-> TRUE ]

analyze_lesson(lesson) ==
    LET category == GetCategory(lesson)
        target == MapGet(category)
    IN IF target # None
       THEN [ id |-> lesson.id, category |-> category,
              target |-> target,
              target_type |-> IF IsSkillPath(target) THEN "skill" ELSE "rule",
              action |-> "append", ready |-> TRUE ]
       ELSE [ id |-> lesson.id, category |-> category,
              target |-> None, target_type |-> "unknown",
              action |-> "manual", ready |-> FALSE ]

(* analyze_all: the analysis of every pending lesson, in listing order *)
analyze_all(store) ==
    LET pend == list_lessons(store, TRUE)
    IN [i \in 1..Len(pend) |-> analyze_lesson(pend[i])]

(* analyze_all + get_analysis_summary: the counts cmd_run looks at *)
ReadyCount(store) ==
    LET pend == list_lessons(store, TRUE)
    IN Cardinality({i \in 1..Len(pend) : analyze_lesson(pend[i]).ready})

(* ------------------------------ applier ------------------------------- *)
(* _build_patch_block: blank line, header, error, solution, optional tags *)
build_patch_block(lesson) ==
    <<NL, <<"hdr", lesson.id, lesson.category>>, NL, Txt("  - err: ")>>
    \o lesson.error
    \o <<NL, Txt("  - sol: ")>> \o lesson.solution
    \o (IF lesson.tags # <<>> THEN <<NL, <<"tags", lesson.tags>>>> ELSE <<>>)
    \o <<NL>>

(* off by one: a total of exactly MAX_LINES is refused *)
OverLimit_AtLimit(currentLines, patchLines) ==
    currentLines + patchLines >= MAX_LINES

(* the block's own lines are left out of the test *)
OverLimit_CurrentOnly(currentLines, patchLines) == currentLines > MAX_LINES

(* the size test of apply_lesson *)
OverLimit(currentLines, patchLines) == currentLines + patchLines > MAX_LINES

(* the test for the target's existence is left out *)
ApplyCheck_NoExistsTest(lesson, files) ==
    LET analysis == analyze_lesson(lesson)
    IN IF ~analysis.ready THEN "undecidable"
       ELSE IF OverLimit(CountLines(files[analysis.target]),
                         CountLines(build_patch_block(lesson)))
            THEN "size"
       ELSE "ok"

(* outcome of apply_lesson up to and including the size test *)
ApplyCheck(lesson, files) ==
    LET analysis == analyze_lesson(lesson)
    IN IF ~analysis.ready THEN "undecidable"
       ELSE IF files[analysis.target] = NoFile THEN "missing"
       ELSE IF OverLimit(CountLines(files[analysis.target]),
                         CountLines(build_patch_block(lesson)))
            THEN "size"
       ELSE "ok"

(* the rewrite stamps the record anew *)
mark_applied_Restamp(store, lesson, t) ==
    IF lesson.id \notin DOMAIN store THEN store
    ELSE [store EXCEPT ![lesson.id] = [@ EXCEPT !.applied = TRUE,
                                                !.applied_at = NowIso(t),
                                                !.created_at = NowIso(t)]]

(* applied_at is left as it was *)
mark_applied_NoTimestamp(store, lesson, t) ==
    IF lesson.id \notin DOMAIN store THEN store
    ELSE [store EXCEPT ![lesson.id] = [@ EXCEPT !.applied = TRUE]]

(* mark_applied: re-reads the record file, sets the two fields, rewrites *)
mark_applied(store, lesson, t) ==
    IF lesson.id \notin DOMAIN store THEN store
    ELSE [store EXCEPT ![lesson.id] =
             [@ EXCEPT !.applied = TRUE, !.applied_at = NowIso(t)]]

(* the record is marked whatever apply_lesson returned *)
MarkIfSuccess_Always(store, lesson, ok, t) == mark_applied(store, lesson, t)

(* apply_all: if result["success"]: mark_applied(lesson) *)
MarkIfSuccess(store, lesson, ok, t) ==
    IF ok THEN mark_applied(store, lesson, t) ELSE store

(* --------------------------- other environments ----------------------- *)
(* lessons captured elsewhere one minute before this environment's clock  *)
(* starts, published to the shared repository                             *)
Foreign ==
    { [NewLesson(0, <<"python", "runtime">>, <<Txt("remote")>>, <<>>)
          EXCEPT !.source_env = "other"] }


(* the command has no result of sync_push (yet) *)
NotCalled == [success |-> FALSE, message |-> "not called"]

(* ----------------------------- scheduler ------------------------------ *)
(* the pids of the host *)
Pids == 1..MaxPid

(* .scheduler.pid does not exist *)
NoHandle == <<"absent">>

(* .scheduler.pid holds text that int() rejects *)
Unparsable == <<"garbage">>

(* .scheduler.pid holds this pid *)
Named(pid) == <<"pid", pid>>

(* the hosts an environment runs on: os.kill, or tasklist and taskkill *)
Platforms == {"Linux", "Windows"}

(* no process runs under a pid *)
Free == [kind |-> "none", at |-> "none"]

(* who calls run_once: the scheduler loop and a run-once command *)
Invokers == {"loop", "manual"}

(* a run_once call that is not between its load and its save *)
NotLoaded == [at |-> "idle", seen |-> <<>>, outcome |-> "none"]

(* no schedule command has returned *)
NoReply ==
    [op |-> "none", success |-> FALSE, message |-> "none",
     running |-> FALSE, pid |-> 0, total_runs |-> 0, success_rate |-> 0]

(* sync_both has returned nothing (yet) *)
NoResult == [success |-> FALSE, phase |-> "none", push |-> NotCalled]

(* ------------------------------- state -------------------------------- *)
VARIABLES
    clock,       \* wall clock, in ticks
    lessons,     \* lessons/ directory: id -> record (the working tree)
    artifacts,   \* gemini_dir: target path -> text, or NoFile
    backups,     \* gemini_dir: target path -> text of <target>.bak, or NoFile
    gitFail,     \* which git operation the environment currently fails
    head,        \* lessons/ as of the local HEAD commit
    origin,      \* lessons/ as of the shared repository
    pc,          \* position of each process
    cmd,         \* command a process is executing
    auto,        \* its auto_approve flag
    pending,     \* apply_all: the list read from list_lessons
    idx,         \* apply_all: loop position in pending
    results,     \* apply_all: outcomes collected so far
    content,     \* apply_lesson: text read from the target
    runOps,      \* git operations the current command has attempted
    push,        \* what sync_push returned to the current command
    captures,    \* number of captures so far
    directs,     \* number of direct engine calls so far
    markedHere,  \* ids this environment passed to mark_applied
    succ,        \* auto pipeline runs in a row: nothing came between them
    published,   \* the remote got a lesson while the first of them ran
    owed,        \* a run's push phase failed and no push succeeded since
    both,        \* what sync_both returned to the current command
    handle,      \* .scheduler.pid: absent, a pid, or unparsable text
    ptable,      \* the host's process table: pid -> what runs under it
    log,         \* scheduler_log.json: the stored entries, oldest first
    written,     \* every entry run_once has appended, oldest first
    reply,       \* what the last schedule command returned
    script,      \* progress of start, status, stop, status, stop
    platform,    \* platform.system() of the host
    inflight     \* run_once calls between their load and their save

store == <<lessons, artifacts, backups>>
git == <<gitFail, head, origin>>
locals == <<pending, idx, results, content>>
vars == <<clock, lessons, artifacts, backups, gitFail, head, origin, pc, cmd,
          auto, pending, idx, results, content, runOps, captures, directs,
          markedHere, succ, published, push, owed, both, handle, ptable,
          log, written, reply, script, platform, inflight>>
sched == <<handle, ptable, log, written, reply, script, platform, inflight>>
pipeline == <<clock, lessons, artifacts, backups, gitFail, head, origin, pc,
              cmd, auto, pending, idx, results, content, runOps, captures,
              directs, markedHere, succ, published, push, owed, both>>

EmptyStore == [i \in {} |-> 0]

(* texts the coding guide may hold before the engine first touches it *)
InitialGuides ==
    { <<Lines(MAX_LINES - 4)>>,
      <<Lines(MAX_LINES - 7), Txt("last line without newline")>> }

(* the deep_scan skill document is absent or short *)
InitialSkills == { NoFile, <<Lines(2)>> }

InitOn(procs, stores, guides, skills, systems) ==
    /\ clock = StartClock
    /\ \E s \in stores : lessons = s /\ head = s /\ origin = s
    /\ \E g \in guides, k \in skills :
          artifacts = [t \in Targets |->
                          IF t = CODING THEN g
                          ELSE IF t = DEEPSCAN THEN k ELSE <<>>]
    /\ backups = [t \in Targets |-> NoFile]
    /\ gitFail = "none"
    /\ pc = [p \in procs |-> "idle"]
    /\ cmd = [p \in procs |-> "none"]
    /\ auto = [p \in procs |-> FALSE]
    /\ pending = [p \in procs |-> <<>>]
    /\ idx = [p \in procs |-> 1]
    /\ results = [p \in procs |-> <<>>]
    /\ content = [p \in procs |-> <<>>]
    /\ runOps = [p \in procs |-> <<>>]
    /\ push = [p \in procs |-> NotCalled]
    /\ owed = FALSE
    /\ captures = 0
    /\ directs = 0
    /\ markedHere = {}
    /\ succ = 0
    /\ published = FALSE
    /\ both = [p \in procs |-> NoResult]
    /\ handle = NoHandle
    /\ ptable = [i \in Pids |-> Free]
    /\ log = <<>>
    /\ written = <<>>
    /\ reply = NoReply
    /\ script = 0
    /\ platform \in systems
    /\ inflight = [i \in Invokers |-> NotLoaded]

(* the pipeline does not look at the platform *)
InitFrom(stores, guides, skills) ==
    InitOn(Procs, stores, guides, skills, {"Linux"})

InitWith(guides, skills) == InitFrom({EmptyStore}, guides, skills)

Init == InitWith({<<Lines(MAX_LINES - 9)>>}, {NoFile})

InitEngine == InitWith(InitialGuides, InitialSkills)

(* a record another environment committed without the category key *)
Orphan ==
    [ id |-> <<0, "orphan">>, error |-> <<Txt("remote")>>,
      solution |-> Solution, tags |-> <<>>, target_rule |-> None,
      target_skill |-> None, applied |-> FALSE, applied_at |-> None,
      source_env |-> "other", created_at |-> NowIso(0) ]

(* the lessons directory is empty or holds that record *)
InitAnalyze ==
    InitFrom({EmptyStore, WriteFile(EmptyStore, Orphan.id, Orphan)},
             {<<Lines(MAX_LINES - 9)>>}, {NoFile})

AllIdle == \A p \in Procs : pc[p] = "idle"

(* list_lessons globs lessons/*.json and so reads scheduler_log.json,   *)
(* a JSON list: data.get raises AttributeError, which it does not catch *)
ListRaises == log # <<>>

(* no process is between two git calls of one sync function; a change of *)
(* the environment at any other moment acts like one at the next such    *)
(* moment, since only the git calls look at it                           *)
BetweenGitCalls == \A p \in Procs : pc[p] \in {"idle", "push"}

(* the first of a row of auto pipeline runs is under way *)
FirstRunning == succ = 1 /\ ~AllIdle

(* ---------------------------- environment ----------------------------- *)
Tick ==
    /\ clock < StartClock + MaxClock
    /\ clock' = clock + 1
    /\ UNCHANGED <<store, git, pc, cmd, auto, locals, runOps, captures,
                   directs, markedHere, succ, published, push, owed,
                   both, sched>>

(* the network, the remote or the git configuration changes *)
EnvChange(f) ==
    /\ BetweenGitCalls
    /\ f # gitFail
    /\ gitFail' = f
    /\ succ' = IF FirstRunning THEN succ ELSE 0
    /\ published' = (FirstRunning /\ published)
    /\ UNCHANGED <<clock, store, head, origin, pc, cmd, auto, locals, runOps,
                   captures, directs, markedHere, push, owed, both, sched>>

(* another environment pushes a lesson to the shared repository *)
RemotePublish(l) ==
    /\ BetweenGitCalls
    /\ l.id \notin DOMAIN origin
    /\ origin' = WriteFile(origin, l.id, l)
    /\ succ' = IF FirstRunning THEN succ ELSE 0
    /\ published' = FirstRunning
    /\ UNCHANGED <<clock, store, gitFail, head, pc, cmd, auto, locals, runOps,
                   captures, directs, markedHere, push, owed, both, sched>>

(* ------------------------------ commands ------------------------------ *)
(* cmd_capture -> create_lesson *)
Capture(in) ==
    /\ AllIdle
    /\ captures < MaxCaptures
    /\ lessons' = WriteFile(lessons, LessonId(clock, in.category),
                            NewLesson(clock, in.category, in.error, in.tags))
    /\ captures' = captures + 1
    /\ succ' = 0
    /\ published' = FALSE
    /\ UNCHANGED <<clock, artifacts, backups, git, pc, cmd, auto, locals,
                   runOps, directs, markedHere, push, owed, both, sched>>


(* ------------------------------- syncer ------------------------------- *)
(* _is_git_repo *)
IsRepo == gitFail # "norepo"

(* files the shared repository has and the local history lacks *)
Incoming == {i \in DOMAIN origin : i \notin DOMAIN head}

(* git pull --rebase: refuses to overwrite an untracked file *)
PullOk == IsRepo /\ gitFail # "pull" /\ Incoming \cap DOMAIN lessons = {}

Merge(tree) ==
    [i \in DOMAIN tree \cup Incoming |->
        IF i \in Incoming THEN origin[i] ELSE tree[i]]

(* the git calls of sync_pull, each with its outcome *)
PullOps ==
    IF ~IsRepo THEN << <<"rev-parse", FALSE>> >>
    ELSE << <<"rev-parse", TRUE>>, <<"pull", PullOk>> >>

(* git status --porcelain always prints something *)
Dirty_Always == TRUE

(* git status --porcelain prints something *)
Dirty == lessons # head

(* git push is rejected unless it is a fast-forward *)
PushOk == gitFail # "push" /\ Incoming = {}

(* a failed commit is followed by the push all the same *)
PushOps_NoShortCircuit ==
    IF ~IsRepo THEN << <<"rev-parse", FALSE>> >>
    ELSE IF ~Dirty THEN << <<"rev-parse", TRUE>>, <<"status", TRUE>> >>
    ELSE IF gitFail = "add"
         THEN << <<"rev-parse", TRUE>>, <<"status", TRUE>>, <<"add", FALSE>> >>
    ELSE << <<"rev-parse", TRUE>>, <<"status", TRUE>>, <<"add", TRUE>>,
            <<"commit", gitFail # "commit">>, <<"push", PushOk>> >>

(* the git calls of sync_push, each with its outcome *)
PushOps ==
    IF ~IsRepo THEN << <<"rev-parse", FALSE>> >>
    ELSE IF ~Dirty THEN << <<"rev-parse", TRUE>>, <<"status", TRUE>> >>
    ELSE IF gitFail = "add"
         THEN << <<"rev-parse", TRUE>>, <<"status", TRUE>>, <<"add", FALSE>> >>
    ELSE IF gitFail = "commit"
         THEN << <<"rev-parse", TRUE>>, <<"status", TRUE>>, <<"add", TRUE>>,
                 <<"commit", FALSE>> >>
    ELSE << <<"rev-parse", TRUE>>, <<"status", TRUE>>, <<"add", TRUE>>,
            <<"commit", TRUE>>, <<"push", PushOk>> >>

(* what sync_push returns: success and which of its messages *)
sync_push ==
    IF ~IsRepo THEN [success |-> FALSE, message |-> "not a repository"]
    ELSE IF ~Dirty THEN [success |-> TRUE, message |-> "nothing to sync"]
    ELSE IF gitFail = "add"
         THEN [success |-> FALSE, message |-> "staging failed"]
    ELSE IF gitFail = "commit"
         THEN [success |-> FALSE, message |-> "commit failed"]
    ELSE IF PushOk THEN [success |-> TRUE, message |-> "push done"]
    ELSE [success |-> FALSE, message |-> "push failed"]

(* whether a pipeline run's failed push phase is still to be made up for, *)
(* given the outcome of one more sync_push                               *)
Owed(was, command, result) ==
    IF result.message = "push done" THEN FALSE
    ELSE IF command = "run" /\ ~result.success THEN TRUE
    ELSE was

(* a failed sync_push puts the working tree back to the last commit *)
AfterSyncPush_Rollback(tree, history, result) ==
    IF result.success THEN tree ELSE history

(* sync_push returns without touching the files of the working tree, *)
(* whatever the outcome                                              *)
AfterSyncPush(tree, history, result) == tree

Did(ops, op) == \E i \in 1..Len(ops) : ops[i] = <<op, TRUE>>
Tried(ops, op) == \E i \in 1..Len(ops) : ops[i][1] = op

(* sync_pull as one step of process p; next is where p continues if the  *)
(* pull succeeded, else is where it continues if the pull failed         *)
DoPull(p, next, else) ==
    /\ runOps' = [runOps EXCEPT ![p] = PullOps]
    /\ IF PullOk
       THEN /\ lessons' = Merge(lessons)
            /\ head' = Merge(head)
            /\ pc' = [pc EXCEPT ![p] = next]
       ELSE /\ UNCHANGED <<lessons, head>>
            /\ pc' = [pc EXCEPT ![p] = else]
    /\ pending' = [pending EXCEPT ![p] = <<>>]
    /\ idx' = [idx EXCEPT ![p] = 1]
    /\ results' = [results EXCEPT ![p] = <<>>]
    /\ content' = [content EXCEPT ![p] = <<>>]
    /\ push' = [push EXCEPT ![p] = NotCalled]
    /\ UNCHANGED <<clock, artifacts, backups, gitFail, origin, captures,
                   directs, markedHere, owed, sched>>

(* the run carries on after a failed pull *)
AfterPull_Continue(ok) == "analyze"

(* where cmd_run goes after its pull: it stops on failure *)
AfterPull(ok) == IF ok THEN "analyze" ELSE "done"

(* sync_both calls sync_push whatever sync_pull returned *)
AfterSyncPull_PushAnyway(ok) == "push"

(* sync_both: where it goes once sync_pull has returned *)
AfterSyncPull(ok) == IF ok THEN "push" ELSE "done"

(* what sync_both returns, given its pull's success and its push's result *)
sync_both(pull_ok, pushed) ==
    IF ~pull_ok
    THEN [success |-> FALSE, phase |-> "pull", push |-> NotCalled]
    ELSE [success |-> pushed.success, phase |-> "complete", push |-> pushed]

(* ------------------------------ pipeline ------------------------------ *)
(* cmd_run, step 1/4 *)
RunPipeline(p, a) ==
    /\ cmd' = [cmd EXCEPT ![p] = "run"]
    /\ auto' = [auto EXCEPT ![p] = a]
    /\ DoPull(p, AfterPull(TRUE), AfterPull(FALSE))
    /\ UNCHANGED both

(* cmd_run, entered when no other command is under way *)
StartRun(p, a) ==
    /\ AllIdle
    /\ succ' = IF a THEN (IF succ < 2 THEN succ + 1 ELSE 2) ELSE 0
    /\ published' = (a /\ succ > 0 /\ published)
    /\ RunPipeline(p, a)

(* run --auto, entered whatever the other process is doing: the child  *)
(* of a scheduled run and a run typed by the user do not wait for each *)
(* other                                                               *)
OverlapRun(p) ==
    /\ pc[p] = "idle"
    /\ succ' = 0
    /\ published' = FALSE
    /\ RunPipeline(p, TRUE)

(* the run goes on to apply_all whatever the summary says *)
AfterAnalyze_Always(ready) == "list"

(* where cmd_run goes after the summary: it returns if nothing is ready *)
AfterAnalyze(ready) == IF ready = 0 THEN "done" ELSE "list"

(* cmd_run, step 2/4: nothing ready ends the run before apply and push *)
RunAnalyze(p) ==
    /\ pc[p] = "analyze"
    /\ ~ListRaises
    /\ pc' = [pc EXCEPT ![p] = AfterAnalyze(ReadyCount(lessons))]
    /\ UNCHANGED <<clock, store, git, cmd, auto, locals, runOps, captures,
                   directs, markedHere, succ, published, push, owed,
                   both, sched>>

(* apply_all: pending = list_lessons(lessons_dir, only_pending=True) *)
ApplyList(p) ==
    /\ pc[p] = "list"
    /\ ~ListRaises
    /\ pending' = [pending EXCEPT ![p] = list_lessons(lessons, TRUE)]
    /\ idx' = [idx EXCEPT ![p] = 1]
    /\ results' = [results EXCEPT ![p] = <<>>]
    /\ pc' = [pc EXCEPT ![p] = "loop"]
    /\ UNCHANGED <<clock, store, git, cmd, auto, content, runOps, captures,
                   directs, markedHere, succ, published, push, owed,
                   both, sched>>

(* cmd_apply: apply_all without pull and push *)
StartApply(p, a) ==
    /\ AllIdle
    /\ cmd' = [cmd EXCEPT ![p] = "apply"]
    /\ auto' = [auto EXCEPT ![p] = a]
    /\ pending' = [pending EXCEPT ![p] = list_lessons(lessons, TRUE)]
    /\ idx' = [idx EXCEPT ![p] = 1]
    /\ results' = [results EXCEPT ![p] = <<>>]
    /\ content' = [content EXCEPT ![p] = <<>>]
    /\ runOps' = [runOps EXCEPT ![p] = <<>>]
    /\ pc' = [pc EXCEPT ![p] = "loop"]
    /\ succ' = 0
    /\ published' = FALSE
    /\ UNCHANGED <<clock, store, git, captures, directs, markedHere, push,
                   owed, both, sched>>

Current(p) == pending[p][idx[p]]

Outcome(lesson, ok, why) == [id |-> lesson.id, success |-> ok, reason |-> why]

(* a refusal ends the command *)
NextLesson_AbortOnRefusal(p, r) ==
    /\ results' = [results EXCEPT ![p] = Append(@, r)]
    /\ idx' = [idx EXCEPT ![p] = @ + 1]
    /\ pc' = [pc EXCEPT ![p] = IF r.reason = "refused" THEN "done"
                                ELSE "loop"]

(* a failure ends the loop *)
NextLesson_StopOnFailure(p, r) ==
    /\ results' = [results EXCEPT ![p] = Append(@, r)]
    /\ idx' = [idx EXCEPT ![p] = IF r.success THEN @ + 1
                                  ELSE Len(pending[p]) + 1]
    /\ pc' = [pc EXCEPT ![p] = "loop"]

(* the loop moves on to the next lesson with one more result *)
NextLesson(p, r) ==
    /\ results' = [results EXCEPT ![p] = Append(@, r)]
    /\ idx' = [idx EXCEPT ![p] = @ + 1]
    /\ pc' = [pc EXCEPT ![p] = "loop"]

(* apply_all: the for loop is exhausted and the list is returned *)
LoopDone(p) ==
    /\ pc[p] = "loop"
    /\ idx[p] > Len(pending[p])
    /\ pc' = [pc EXCEPT ![p] = IF cmd[p] = "run" THEN "push" ELSE "done"]
    /\ pending' = [pending EXCEPT ![p] = <<>>]
    /\ idx' = [idx EXCEPT ![p] = 1]
    /\ content' = [content EXCEPT ![p] = <<>>]
    /\ UNCHANGED <<clock, store, git, cmd, auto, results, runOps, captures,
                   directs, markedHere, succ, published, push, owed,
                   both, sched>>

(* apply_all: not ready -> manual handling *)
LoopManual(p) ==
    /\ pc[p] = "loop"
    /\ idx[p] <= Len(pending[p])
    /\ ~analyze_lesson(Current(p)).ready
    /\ NextLesson(p, Outcome(Current(p), FALSE, "manual"))
    /\ UNCHANGED <<clock, store, git, cmd, auto, pending, content, runOps,
                   captures, directs, markedHere, succ, published, push,
                   owed, both, sched>>

(* apply_all: _prompt_approve answered no *)
LoopRefuse(p) ==
    /\ pc[p] = "loop"
    /\ idx[p] <= Len(pending[p])
    /\ analyze_lesson(Current(p)).ready
    /\ ~auto[p]
    /\ NextLesson(p, Outcome(Current(p), FALSE, "refused"))
    /\ UNCHANGED <<clock, store, git, cmd, auto, pending, content, runOps,
                   captures, directs, markedHere, succ, published, push,
                   owed, both, sched>>

(* apply_all: auto_approve, or _prompt_approve answered yes *)
LoopApprove(p) ==
    /\ pc[p] = "loop"
    /\ idx[p] <= Len(pending[p])
    /\ analyze_lesson(Current(p)).ready
    /\ pc' = [pc EXCEPT ![p] = "apply"]
    /\ UNCHANGED <<clock, store, git, cmd, auto, locals, runOps, captures,
                   directs, markedHere, succ, published, push, owed,
                   both, sched>>


(* ---------------------------- patch engine ---------------------------- *)
TargetOf(lesson) == analyze_lesson(lesson).target

(* a backup that exists is left as it is *)
backup_file_KeepFirst(bk, files, target) ==
    IF bk[target] = NoFile THEN [bk EXCEPT ![target] = files[target]]
    ELSE bk

(* the copy is skipped *)
backup_file_Skipped(bk, files, target) == bk

(* _backup_file: shutil.copy2(target, target + ".bak") *)
backup_file(bk, files, target) == [bk EXCEPT ![target] = files[target]]

(* open(target, "a").write(patch) *)
append_patch(files, target, patch) == [files EXCEPT ![target] = @ \o patch]

(* apply_lesson returns a failure before touching anything *)
ApplyFail(p) ==
    /\ pc[p] = "apply"
    /\ ApplyCheck(Current(p), artifacts) # "ok"
    /\ NextLesson(p, Outcome(Current(p), FALSE,
                             ApplyCheck(Current(p), artifacts)))
    /\ lessons' = MarkIfSuccess(lessons, Current(p), FALSE, clock)
    /\ UNCHANGED <<clock, artifacts, backups, git, cmd, auto, pending,
                   content, runOps, captures, directs, markedHere, succ,
                   published, push, owed, both, sched>>

(* apply_lesson has read the target and found room for the block *)
ApplyPass(p) ==
    /\ pc[p] = "apply"
    /\ ApplyCheck(Current(p), artifacts) = "ok"
    /\ content' = [content EXCEPT ![p] = artifacts[TargetOf(Current(p))]]
    /\ pc' = [pc EXCEPT ![p] = "backup"]
    /\ UNCHANGED <<clock, store, git, cmd, auto, pending, idx, results,
                   runOps, captures, directs, markedHere, succ, published,
                   push, owed, both, sched>>

(* apply_lesson: bak = _backup_file(target_path) *)
Backup(p) ==
    /\ pc[p] = "backup"
    /\ backups' = backup_file(backups, artifacts, TargetOf(Current(p)))
    /\ pc' = [pc EXCEPT ![p] = "append"]
    /\ UNCHANGED <<clock, lessons, artifacts, git, cmd, auto, locals, runOps,
                   captures, directs, markedHere, succ, published, push,
                   owed, both, sched>>

(* apply_lesson: the block is appended and success is returned *)
AppendBlock(p) ==
    /\ pc[p] = "append"
    /\ artifacts' = append_patch(artifacts, TargetOf(Current(p)),
                                 build_patch_block(Current(p)))
    /\ pc' = [pc EXCEPT ![p] = "mark"]
    /\ UNCHANGED <<clock, lessons, backups, git, cmd, auto, locals, runOps,
                   captures, directs, markedHere, succ, published, push,
                   owed, both, sched>>

(* apply_all: if result["success"]: mark_applied(lesson) *)
Mark(p) ==
    /\ pc[p] = "mark"
    /\ lessons' = MarkIfSuccess(lessons, Current(p), TRUE, clock)
    /\ markedHere' = markedHere \cup {Current(p).id}
    /\ NextLesson(p, Outcome(Current(p), TRUE, "ok"))
    /\ UNCHANGED <<clock, artifacts, backups, git, cmd, auto, pending,
                   content, runOps, captures, directs, succ, published, push,
                   owed, both, sched>>

(* apply_lesson followed by mark_applied, called on a stored lesson       *)
(* without going through apply_all's pending filter                       *)
DirectApply(p, id) ==
    /\ AllIdle
    /\ directs < MaxDirect
    /\ id \in DOMAIN lessons
    /\ directs' = directs + 1
    /\ cmd' = [cmd EXCEPT ![p] = "direct"]
    /\ auto' = [auto EXCEPT ![p] = TRUE]
    /\ pending' = [pending EXCEPT ![p] = <<lessons[id]>>]
    /\ idx' = [idx EXCEPT ![p] = 1]
    /\ results' = [results EXCEPT ![p] = <<>>]
    /\ content' = [content EXCEPT ![p] = <<>>]
    /\ runOps' = [runOps EXCEPT ![p] = <<>>]
    /\ pc' = [pc EXCEPT ![p] = "apply"]
    /\ succ' = 0
    /\ published' = FALSE
    /\ UNCHANGED <<clock, store, git, captures, markedHere, push, owed,
                   both, sched>>

(* ------------------------------- push --------------------------------- *)
(* sync_push as one step: cmd_run step 4/4 and the second half of sync_both *)
Push(p) ==
    /\ pc[p] = "push"
    /\ runOps' = [runOps EXCEPT ![p] = @ \o PushOps]
    /\ head' = IF Did(PushOps, "commit") THEN lessons ELSE head
    /\ origin' = IF Did(PushOps, "push") THEN lessons ELSE origin
    /\ push' = [push EXCEPT ![p] = sync_push]
    /\ lessons' = AfterSyncPush(lessons, head, sync_push)
    /\ pc' = [pc EXCEPT ![p] = "done"]
    /\ owed' = Owed(owed, cmd[p], sync_push)
    /\ both' = IF cmd[p] = "sync"
                THEN [both EXCEPT
                         ![p] = sync_both(Did(runOps[p], "pull"), sync_push)]
                ELSE both
    /\ UNCHANGED <<clock, artifacts, backups, gitFail, cmd, auto, locals,
                   captures, directs, markedHere, succ, published, sched>>

(* the command handler returns: its report has been printed and its      *)
(* local variables are gone                                              *)
Return(p) ==
    /\ pc[p] = "done"
    /\ pc' = [pc EXCEPT ![p] = "idle"]
    /\ cmd' = [cmd EXCEPT ![p] = "none"]
    /\ auto' = [auto EXCEPT ![p] = FALSE]
    /\ results' = [results EXCEPT ![p] = <<>>]
    /\ runOps' = [runOps EXCEPT ![p] = <<>>]
    /\ push' = [push EXCEPT ![p] = NotCalled]
    /\ both' = [both EXCEPT ![p] = NoResult]
    /\ UNCHANGED <<clock, store, git, pending, idx, content, captures,
                   directs, markedHere, succ, published, owed, sched>>

(* cmd_sync -> sync_both: pull, and push only if the pull succeeded *)
StartSync(p) ==
    /\ AllIdle
    /\ cmd' = [cmd EXCEPT ![p] = "sync"]
    /\ auto' = [auto EXCEPT ![p] = FALSE]
    /\ succ' = 0
    /\ published' = FALSE
    /\ DoPull(p, AfterSyncPull(TRUE), AfterSyncPull(FALSE))
    /\ both' = [both EXCEPT
                   ![p] = IF PullOk THEN NoResult
                          ELSE sync_both(FALSE, NotCalled)]

(* ------------------------ scheduler: run log -------------------------- *)
(* how the child process of a scheduled run can end *)
Outcomes == {"exit 0", "exit 1", "timeout", "launch"}

(* a run that exceeded the timeout is reported as a success *)
run_pipeline_TimeoutOk(outcome) ==
    IF outcome \in {"exit 0", "timeout"}
    THEN [success |-> TRUE, error |-> "none"]
    ELSE [success |-> FALSE, error |-> "failed"]

(* _run_pipeline: success is returncode 0; TimeoutExpired and any other *)
(* exception are caught and returned as a failure                       *)
run_pipeline(outcome) ==
    IF outcome = "exit 0" THEN [success |-> TRUE, error |-> "none"]
    ELSE IF outcome = "exit 1" THEN [success |-> FALSE, error |-> "stderr"]
    ELSE IF outcome = "timeout"
         THEN [success |-> FALSE, error |-> "timeout (300s)"]
    ELSE [success |-> FALSE, error |-> "exception"]

(* the entry run_once builds for its n-th call on this host *)
Entry(n, outcome) ==
    [n |-> n, success |-> run_pipeline(outcome).success,
     error |-> run_pipeline(outcome).error]

(* _save_log keeps the oldest entries *)
save_log_KeepOldest(entries) ==
    IF Len(entries) > KEEP_ENTRIES THEN SubSeq(entries, 1, KEEP_ENTRIES)
    ELSE entries

(* _save_log: entries[-100:] is what gets written *)
save_log(entries) ==
    IF Len(entries) > KEEP_ENTRIES
    THEN SubSeq(entries, Len(entries) - KEEP_ENTRIES + 1, Len(entries))
    ELSE entries

(* run_once: load the stored log, append the entry, save *)
run_once(stored, entry) == save_log(Append(stored, entry))

(* the failed runs among some entries *)
Failed(entries) == {i \in 1..Len(entries) : ~entries[i].success}

(* format(x, ".0f") of num/den: to the nearest integer, halves to even *)
RoundHalfEven(num, den) ==
    LET q == num \div den
        r == num % den
    IN IF 2 * r < den THEN q
       ELSE IF 2 * r > den THEN q + 1
       ELSE IF q % 2 = 0 THEN q ELSE q + 1

(* the log has no entry: get_status reports "N/A" *)
NotAvailable == 0 - 1

(* get_status: the share of successful entries, in percent *)
success_rate(entries) ==
    IF entries = <<>> THEN NotAvailable
    ELSE RoundHalfEven(
            100 * (Len(entries) - Cardinality(Failed(entries))),
            Len(entries))

(* -------------------- scheduler: process control ---------------------- *)
Exists(pt, pid) == pt[pid].kind # "none"

(* a scheduler loop runs under the pid *)
IsLoop(pt, pid) == pt[pid].kind \in {"bg", "fg"}

(* the process belongs to the user who runs the commands *)
Ours(pt, pid) == pt[pid].kind \in {"bg", "fg", "other"}

Loops(pt) == {pid \in Pids : IsLoop(pt, pid)}

FreePids(pt) == {pid \in Pids : ~Exists(pt, pid)}

(* os.kill(pid, sig): done, or the exception it raises *)
os_kill(pt, pid) ==
    IF ~Exists(pt, pid) THEN "ProcessLookupError"
    ELSE IF ~Ours(pt, pid) THEN "PermissionError"
    ELSE "ok"

(* is_running: its answer and what it leaves of the handle.  A missing  *)
(* handle is not running; text that int() rejects raises ValueError;    *)
(* tasklist prints the pid of any existing process and nothing with a   *)
(* digit otherwise; os.kill(pid, 0) raises for a missing process and    *)
(* for one of another user, and every exception unlinks the handle.     *)
is_running(system, h, pt) ==
    IF h = NoHandle THEN [running |-> FALSE, handle |-> h]
    ELSE IF h = Unparsable THEN [running |-> FALSE, handle |-> NoHandle]
    ELSE IF system = "Windows"
         THEN [running |-> Exists(pt, h[2]), handle |-> h]
    ELSE IF os_kill(pt, h[2]) = "ok" THEN [running |-> TRUE, handle |-> h]
    ELSE [running |-> FALSE, handle |-> NoHandle]

(* stop leaves the handle of a process it could not find in place *)
stop_KeepStale(system, h, pt) ==
    IF h = NoHandle
    THEN [success |-> FALSE, message |-> "not running", handle |-> h,
          killed |-> {}]
    ELSE IF h = Unparsable
    THEN [success |-> FALSE, message |-> "stop failed", handle |-> NoHandle,
          killed |-> {}]
    ELSE IF Exists(pt, h[2]) /\ Ours(pt, h[2])
    THEN [success |-> TRUE, message |-> "stopped", handle |-> NoHandle,
          killed |-> {h[2]}]
    ELSE [success |-> FALSE, message |-> "stop failed", handle |-> h,
          killed |-> {}]

(* stop: its result, what it leaves of the handle and what it killed.   *)
(* taskkill /F ends a process of the user and its failure is not        *)
(* looked at; os.kill(pid, 9) raises for a missing process and for one  *)
(* of another user; every caught exception unlinks the handle.          *)
stop(system, h, pt) ==
    IF h = NoHandle
    THEN [success |-> FALSE, message |-> "not running", handle |-> h,
          killed |-> {}]
    ELSE IF h = Unparsable
    THEN [success |-> FALSE, message |-> "stop failed", handle |-> NoHandle,
          killed |-> {}]
    ELSE IF system = "Windows"
    THEN [success |-> TRUE, message |-> "stopped", handle |-> NoHandle,
          killed |-> IF Ours(pt, h[2]) THEN {h[2]} ELSE {}]
    ELSE IF os_kill(pt, h[2]) = "ok"
    THEN [success |-> TRUE, message |-> "stopped", handle |-> NoHandle,
          killed |-> {h[2]}]
    ELSE [success |-> FALSE, message |-> "stop failed", handle |-> NoHandle,
          killed |-> {}]

(* the processes in the set are gone *)
Kill(pt, pids) == [i \in Pids |-> IF i \in pids THEN Free ELSE pt[i]]

(* the script start, status, stop, status, stop from no scheduler       *)
(* running: how far it has got once the command op has returned         *)
Script(n, op, quiet) ==
    IF op = "start" THEN (IF quiet THEN 1 ELSE 0)
    ELSE IF op = "status" /\ n \in {1, 3} THEN n + 1
    ELSE IF op = "stop" /\ n \in {2, 4} THEN n + 1
    ELSE 0

(* cmd_schedule start -> start_background *)
StartBackground ==
    LET r == is_running(platform, handle, ptable)
    IN /\ IF r.running
          THEN /\ reply' = [NoReply EXCEPT !.op = "start",
                                           !.message = "already running"]
               /\ handle' = r.handle
               /\ UNCHANGED ptable
          ELSE \E pid \in FreePids(ptable) :
                  /\ ptable' = [ptable EXCEPT
                                   ![pid] = [kind |-> "bg", at |-> "boot"]]
                  /\ handle' = Named(pid)
                  /\ reply' = [NoReply EXCEPT !.op = "start",
                                              !.success = TRUE,
                                              !.message = "started",
                                              !.pid = pid]
       /\ script' = Script(script, "start", Loops(ptable) = {})
       /\ UNCHANGED <<pipeline, log, written, platform, inflight>>

(* the detached child enters start_loop and writes its own pid *)
Boot(pid) ==
    /\ ptable[pid] = [kind |-> "bg", at |-> "boot"]
    /\ ptable' = [ptable EXCEPT ![pid].at = "run"]
    /\ handle' = Named(pid)
    /\ UNCHANGED <<pipeline, log, written, reply, script, platform, inflight>>

(* cmd_schedule start --foreground -> start_loop, up to its first run *)
StartForeground ==
    \E pid \in FreePids(ptable) :
        /\ ptable' = [ptable EXCEPT ![pid] = [kind |-> "fg", at |-> "run"]]
        /\ handle' = Named(pid)
        /\ reply' = [NoReply EXCEPT !.op = "foreground", !.pid = pid]
        /\ script' = 0
        /\ UNCHANGED <<pipeline, log, written, platform, inflight>>

(* start_loop: one run_once of a scheduler loop, then on to the sleep.  *)
(* The read, append and write of the log file are taken as one step.    *)
LoopRun(pid, outcome) ==
    /\ IsLoop(ptable, pid)
    /\ ptable[pid].at = "run"
    /\ Len(written) < MaxLoopRuns
    /\ log' = run_once(log, Entry(Len(written) + 1, outcome))
    /\ written' = Append(written, Entry(Len(written) + 1, outcome))
    /\ ptable' = [ptable EXCEPT ![pid].at = "sleep"]
    /\ UNCHANGED <<pipeline, handle, reply, script, platform, inflight>>

(* start_loop: time.sleep returns *)
Wake(pid) ==
    /\ IsLoop(ptable, pid)
    /\ ptable[pid].at = "sleep"
    /\ ptable' = [ptable EXCEPT ![pid].at = "run"]
    /\ UNCHANGED <<pipeline, handle, log, written, reply, script,
                   platform, inflight>>

(* Ctrl+C in the terminal of a foreground loop: KeyboardInterrupt, then *)
(* the finally clause unlinks whatever handle there is                  *)
Interrupt(pid) ==
    /\ ptable[pid].kind = "fg"
    /\ ptable' = Kill(ptable, {pid})
    /\ handle' = NoHandle
    /\ script' = 0
    /\ UNCHANGED <<pipeline, log, written, reply, platform, inflight>>

(* a process ends with no clean-up: SIGKILL, a crash, its own exit *)
Die(pid) ==
    /\ Exists(ptable, pid)
    /\ ptable' = Kill(ptable, {pid})
    /\ script' = 0
    /\ UNCHANGED <<pipeline, handle, log, written, reply, platform, inflight>>

(* another program starts under a free pid, as the user or as another *)
Intrude(pid, kind) ==
    /\ pid \in FreePids(ptable)
    /\ ptable' = [ptable EXCEPT ![pid] = [kind |-> kind, at |-> "none"]]
    /\ script' = 0
    /\ UNCHANGED <<pipeline, handle, log, written, reply, platform, inflight>>

(* the handle file is left with text that is no number *)
Scribble ==
    /\ handle \notin {NoHandle, Unparsable}
    /\ handle' = Unparsable
    /\ script' = 0
    /\ UNCHANGED <<pipeline, ptable, log, written, reply, platform, inflight>>

(* cmd_schedule status -> get_status *)
Status ==
    LET r == is_running(platform, handle, ptable)
    IN /\ handle' = r.handle
       /\ reply' = [NoReply EXCEPT
                       !.op = "status",
                       !.success = TRUE,
                       !.running = r.running,
                       !.pid = IF r.running THEN handle[2] ELSE 0,
                       !.total_runs = Len(log),
                       !.success_rate = success_rate(log)]
       /\ script' = Script(script, "status", FALSE)
       /\ UNCHANGED <<pipeline, ptable, log, written, platform, inflight>>

(* cmd_schedule stop -> stop *)
Stop ==
    LET r == stop(platform, handle, ptable)
    IN /\ handle' = r.handle
       /\ ptable' = Kill(ptable, r.killed)
       /\ reply' = [NoReply EXCEPT !.op = "stop",
                                   !.success = r.success,
                                   !.message = r.message]
       /\ script' = Script(script, "stop", FALSE)
       /\ UNCHANGED <<pipeline, log, written, platform, inflight>>

(* cmd_schedule run-once -> run_once *)
RunOnceCmd(outcome) ==
    /\ Len(written) < MaxRuns
    /\ outcome = "exit 0"
       \/ Cardinality(Failed(written)) < MaxFailures
    /\ log' = run_once(log, Entry(Len(written) + 1, outcome))
    /\ written' = Append(written, Entry(Len(written) + 1, outcome))
    /\ reply' = [NoReply EXCEPT
                    !.op = "run-once",
                    !.success = run_pipeline(outcome).success]
    /\ script' = 0
    /\ UNCHANGED <<pipeline, handle, ptable, platform, inflight>>

(* --------------------- scheduler: overlapping calls ------------------- *)
(* run_once calls that have loaded the log and not saved yet *)
Loaded == {i \in Invokers : inflight[i].at = "loaded"}

(* run_once: the child has ended and log = _load_log() has been read *)
RaceLoad(i, outcome) ==
    /\ inflight[i].at = "idle"
    /\ Len(written) + Cardinality(Loaded) < MaxLoopRuns
    /\ inflight' = [inflight EXCEPT
                       ![i] = [at |-> "loaded", seen |-> log,
                               outcome |-> outcome]]
    /\ UNCHANGED <<pipeline, handle, ptable, log, written, reply, script,
                   platform>>

(* run_once: log.append(entry); _save_log(log), on the list it loaded *)
RaceSave(i) ==
    /\ inflight[i].at = "loaded"
    /\ log' = save_log(Append(inflight[i].seen,
                              Entry(Len(written) + 1, inflight[i].outcome)))
    /\ written' = Append(written,
                         Entry(Len(written) + 1, inflight[i].outcome))
    /\ inflight' = [inflight EXCEPT ![i] = NotLoaded]
    /\ UNCHANGED <<pipeline, handle, ptable, reply, script, platform>>

(* ------------------------ scheduler: its child ------------------------ *)
(* run_once -> _run_pipeline: the child "python -m revolution run      *)
(* --auto" is started                                                  *)
ScheduledRun(p) ==
    /\ AllIdle
    /\ Len(written) < MaxLoopRuns
    /\ succ' = 0
    /\ published' = FALSE
    /\ RunPipeline(p, TRUE)

(* the child dies of the exception list_lessons raises *)
ListCrash(p) ==
    /\ pc[p] \in {"analyze", "list"}
    /\ ListRaises
    /\ pc' = [pc EXCEPT ![p] = "crashed"]
    /\ UNCHANGED <<clock, store, git, cmd, auto, locals, runOps, captures,
                   directs, markedHere, succ, published, push, owed,
                   both, sched>>

(* subprocess.run(timeout=300) kills the child where it is *)
RunTimeout(p) ==
    /\ cmd[p] = "run"
    /\ pc[p] \notin {"idle", "done", "crashed", "timeout"}
    /\ pc' = [pc EXCEPT ![p] = "timeout"]
    /\ UNCHANGED <<clock, store, git, cmd, auto, locals, runOps, captures,
                   directs, markedHere, succ, published, push, owed,
                   both, sched>>

(* how the child ended: cmd_run returns from wherever it stops and     *)
(* main never exits with a status of its own, so the returncode is 0   *)
(* unless an exception ended the process                               *)
ChildOutcome(at) ==
    IF at = "done" THEN "exit 0"
    ELSE IF at = "crashed" THEN "exit 1"
    ELSE "timeout"

(* run_once: the child has ended, its entry goes into the log *)
Record(p) ==
    /\ cmd[p] = "run"
    /\ pc[p] \in {"done", "crashed", "timeout"}
    /\ log' = run_once(log, Entry(Len(written) + 1, ChildOutcome(pc[p])))
    /\ written' = Append(written,
                         Entry(Len(written) + 1, ChildOutcome(pc[p])))
    /\ reply' = [NoReply EXCEPT
                    !.op = "run-once",
                    !.success = run_pipeline(ChildOutcome(pc[p])).success]
    /\ script' = 0
    /\ pc' = [pc EXCEPT ![p] = "idle"]
    /\ cmd' = [cmd EXCEPT ![p] = "none"]
    /\ auto' = [auto EXCEPT ![p] = FALSE]
    /\ results' = [results EXCEPT ![p] = <<>>]
    /\ runOps' = [runOps EXCEPT ![p] = <<>>]
    /\ push' = [push EXCEPT ![p] = NotCalled]
    /\ both' = [both EXCEPT ![p] = NoResult]
    /\ UNCHANGED <<clock, store, git, pending, idx, content, captures,
                   directs, markedHere, succ, published, owed, handle,
                   ptable, platform, inflight>>

(* ---------------------------- specification --------------------------- *)
(* the steps of apply_all and apply_lesson *)
EngineStep(p) ==
    \/ LoopDone(p)
    \/ LoopManual(p)
    \/ LoopRefuse(p)
    \/ LoopApprove(p)
    \/ ApplyFail(p)
    \/ ApplyPass(p)
    \/ Backup(p)
    \/ AppendBlock(p)
    \/ Mark(p)
    \/ Return(p)

Next ==
    \/ Tick
    \/ \E f \in GitFailures : EnvChange(f)
    \/ \E l \in Foreign : RemotePublish(l)
    \/ \E in \in CaptureInputs : Capture(in)
    \/ \E p \in Procs, a \in BOOLEAN : StartRun(p, a)
    \/ \E p \in Procs : RunAnalyze(p)
    \/ \E p \in Procs : ApplyList(p)
    \/ \E p \in Procs : StartSync(p)
    \/ \E p \in Procs : Push(p)
    \/ \E p \in Procs : EngineStep(p)

(* the pipeline of one environment: capture, run and sync commands, one  *)
(* after another, against a shared repository                            *)
Spec == Init /\ [][Next]_vars

NextEngine ==
    \/ Tick
    \/ \E in \in CaptureInputs : Capture(in)
    \/ \E p \in Procs, a \in BOOLEAN : StartApply(p, a)
    \/ \E p \in Procs : \E id \in DOMAIN lessons : DirectApply(p, id)
    \/ \E p \in Procs : EngineStep(p)

(* the patch engine alone: capture and apply commands, and apply_lesson  *)
(* followed by mark_applied called on any stored lesson                  *)
SpecEngine == InitEngine /\ [][NextEngine]_vars

(* cmd_analyze: analyze_all over the pending lessons *)
Analyze(p) ==
    /\ AllIdle
    /\ ~ListRaises
    /\ cmd' = [cmd EXCEPT ![p] = "analyze"]
    /\ results' = [results EXCEPT ![p] = analyze_all(lessons)]
    /\ pc' = [pc EXCEPT ![p] = "done"]
    /\ succ' = 0
    /\ published' = FALSE
    /\ UNCHANGED <<clock, store, git, auto, pending, idx, content, runOps,
                   captures, directs, markedHere, push, owed, both, sched>>

(* cmd_capture with any category *)
CaptureAny(c) ==
    Capture([category |-> c, error |-> <<Txt("boom")>>, tags |-> <<>>])

NextAnalyze ==
    \/ Tick
    \/ \E c \in AnalyzeCategories : CaptureAny(c)
    \/ \E p \in Procs : Analyze(p)
    \/ \E p \in Procs : Return(p)

(* the classifier alone: capture and analyze commands *)
SpecAnalyze == InitAnalyze /\ [][NextAnalyze]_vars

(* any host, nothing of the scheduler on it yet *)
InitSched ==
    InitOn(Procs, {EmptyStore}, {<<Lines(MAX_LINES - 9)>>}, {NoFile},
           Platforms)

NextSched ==
    \/ StartBackground
    \/ StartForeground
    \/ \E pid \in Pids : Boot(pid)
    \/ \E pid \in Pids : Interrupt(pid)
    \/ \E pid \in Pids : Die(pid)
    \/ \E pid \in Pids, kind \in {"other", "foreign"} : Intrude(pid, kind)
    \/ Scribble
    \/ Status
    \/ Stop

(* process control of the scheduler on one host: the schedule commands, *)
(* one after another, among processes that come and go                  *)
SpecSched == InitSched /\ [][NextSched]_vars

NextLoop ==
    \/ StartForeground
    \/ \E pid \in Pids, outcome \in Outcomes : LoopRun(pid, outcome)
    \/ \E pid \in Pids : Wake(pid)
    \/ \E pid \in Pids : Interrupt(pid)
    \/ Status

(* scheduler loops at work: their runs, their sleeps and their end *)
SpecLoop == InitSched /\ [][NextLoop]_vars

NextLog ==
    \/ \E outcome \in Outcomes : RunOnceCmd(outcome)
    \/ Status

(* the run log under run-once commands, one after another *)
SpecLog == InitSched /\ [][NextLog]_vars

NextCommands ==
    \/ StartBackground
    \/ StartForeground
    \/ \E pid \in Pids : Boot(pid)
    \/ \E pid \in Pids : Interrupt(pid)
    \/ Status
    \/ Stop

(* the schedule commands and Ctrl+C alone, with nothing else going on *)
SpecCommands == InitSched /\ [][NextCommands]_vars

(* a lesson captured earlier and still pending *)
Waiting == NewLesson(0, <<"python", "runtime">>, <<Txt("boom")>>, <<>>)

InitOverlap ==
    InitOn(Overlapping, {WriteFile(EmptyStore, Waiting.id, Waiting)},
           {<<Lines(MAX_LINES - 6)>>}, {NoFile}, {"Linux"})

NextOverlap ==
    \/ Tick
    \/ \E p \in Overlapping : OverlapRun(p)
    \/ \E p \in Overlapping : RunAnalyze(p)
    \/ \E p \in Overlapping : ApplyList(p)
    \/ \E p \in Overlapping : LoopApprove(p)
    \/ \E p \in Overlapping : ApplyFail(p)
    \/ \E p \in Overlapping : ApplyPass(p)
    \/ \E p \in Overlapping : Backup(p)
    \/ \E p \in Overlapping : AppendBlock(p)
    \/ \E p \in Overlapping : Mark(p)
    \/ \E p \in Overlapping : LoopDone(p)
    \/ \E p \in Overlapping : Push(p)
    \/ \E p \in Overlapping : Return(p)

(* two pipeline runs of one environment that may overlap: a scheduled  *)
(* run and a run of the user, over one pending lesson                  *)
SpecOverlap == InitOverlap /\ [][NextOverlap]_vars

(* one lesson is waiting; the guide has room for its block or is full *)
InitScheduled ==
    InitOn(Procs, {WriteFile(EmptyStore, Waiting.id, Waiting)},
           {<<Lines(MAX_LINES - 9)>>, <<Lines(MAX_LINES)>>}, {NoFile},
           {"Linux"})

NextScheduled ==
    \/ \E f \in GitFailures : EnvChange(f)
    \/ \E p \in Procs : ScheduledRun(p)
    \/ \E p \in Procs : RunAnalyze(p)
    \/ \E p \in Procs : ListCrash(p)
    \/ \E p \in Procs : ApplyList(p)
    \/ \E p \in Procs : LoopApprove(p)
    \/ \E p \in Procs : ApplyFail(p)
    \/ \E p \in Procs : ApplyPass(p)
    \/ \E p \in Procs : Backup(p)
    \/ \E p \in Procs : AppendBlock(p)
    \/ \E p \in Procs : Mark(p)
    \/ \E p \in Procs : LoopDone(p)
    \/ \E p \in Procs : Push(p)
    \/ \E p \in Procs : RunTimeout(p)
    \/ \E p \in Procs : Record(p)

(* scheduled runs, one after another: the pipeline as the child of     *)
(* run_once, and the entry run_once logs for it                        *)
SpecScheduled == InitScheduled /\ [][NextScheduled]_vars

NextLogRace ==
    \/ \E i \in Invokers, outcome \in Outcomes : RaceLoad(i, outcome)
    \/ \E i \in Invokers : RaceSave(i)

(* the run log under run_once calls that may overlap: the loop's run   *)
(* and a run-once command, each loading the log and saving it later    *)
SpecLogRace == InitSched /\ [][NextLogRace]_vars

TypeOK ==
    /\ clock \in StartClock..(StartClock + MaxClock)
    /\ gitFail \in GitFailures
    /\ \A p \in Procs :
          pc[p] \in {"idle", "done", "analyze", "list", "loop", "apply",
                     "backup", "append", "mark", "push", "crashed",
                     "timeout"}
    /\ DOMAIN head \subseteq DOMAIN lessons

(* ------------------------------- claims ------------------------------- *)
LastOf(seq) == seq[Len(seq)]

(* process p has just been handed a failure with the given reason *)
Rejected(p, why) ==
    /\ results[p] # <<>>
    /\ ~LastOf(results[p]).success
    /\ LastOf(results[p]).reason = why

(* C1: an apply_lesson call that reaches the size test (category known,  *)
(* target present) fails with the size-limit reason exactly when the     *)
(* target's line count plus the block's line count exceeds 1000, so a    *)
(* total of exactly 1000 goes on to the backup; when it fails, no        *)
(* artifact, no backup and no lesson record changes.                     *)
C1_SizeLimit ==
    [][\A p \in Procs :
        (/\ pc[p] = "apply"
         /\ pc'[p] # "apply"
         /\ Current(p).category \in DOMAIN CATEGORY_MAP
         /\ artifacts[CATEGORY_MAP[Current(p).category]] # NoFile)
        => LET t == CATEGORY_MAP[Current(p).category]
               total == CountLines(artifacts[t])
                        + CountLines(build_patch_block(Current(p)))
               failed == /\ pc'[p] = "loop"
                         /\ Len(results'[p]) = Len(results[p]) + 1
                         /\ ~LastOf(results'[p]).success
                         /\ LastOf(results'[p]).reason = "size"
                         /\ LastOf(results'[p]).id = Current(p).id
           IN /\ failed <=> total > 1000
              /\ ~failed => pc'[p] = "backup"
              /\ failed => /\ artifacts' = artifacts
                           /\ backups' = backups
                           /\ lessons' = lessons]_vars

(* a size-limit failure against a target that an earlier apply filled to *)
(* exactly 1000 lines                                                    *)
C1_Witness ==
    \E p \in Procs :
        /\ Rejected(p, "size")
        /\ pc[p] = "loop"
        /\ backups[CODING] # NoFile
        /\ CountLines(artifacts[CODING]) = 1000

(* C2: in a successful apply_lesson call the backup is written while the *)
(* artifact still holds the text the call read, the block is appended    *)
(* only afterwards, and when the call returns the backup is that text    *)
(* and the artifact is that text followed by the rendered block; no      *)
(* other artifact or backup changes.                                     *)
C2_BackupThenAppend ==
    [][\A p \in Procs :
        LET l == Current(p)
            t == TargetOf(l)
            pre == content[p]
        IN /\ (pc[p] = "apply" /\ pc'[p] = "backup")
                => /\ content'[p] = artifacts[t]
                   /\ UNCHANGED <<artifacts, backups>>
           /\ (pc[p] = "backup" /\ pc'[p] # "backup")
                => /\ pc'[p] = "append"
                   /\ artifacts[t] = pre
                   /\ artifacts' = artifacts
                   /\ backups' = [backups EXCEPT ![t] = pre]
           /\ (pc[p] = "append" /\ pc'[p] # "append")
                => /\ pc'[p] = "mark"
                   /\ backups[t] = pre
                   /\ backups' = backups
                   /\ artifacts' =
                        [artifacts EXCEPT ![t] = pre \o build_patch_block(l)]
           /\ (pc[p] = "mark" /\ pc'[p] # "mark")
                => /\ LastOf(results'[p]).success
                   /\ LastOf(results'[p]).id = l.id
                   /\ UNCHANGED <<artifacts, backups>>
                   /\ backups[t] = pre
                   /\ artifacts[t] = pre \o build_patch_block(l)]_vars

(* a successful apply has just returned to apply_all *)
C2_Witness ==
    \E p \in Procs :
        /\ pc[p] = "loop"
        /\ results[p] # <<>>
        /\ LastOf(results[p]).success
        /\ backups[TargetOf(pending[p][idx[p] - 1])] # NoFile

(* C3: an artifact that had at most 1000 lines before the engine first   *)
(* touched it never has more than 1000 lines, whatever applies follow.   *)
C3_Ceiling ==
    \A t \in Targets :
        artifacts[t] # NoFile => CountLines(artifacts[t]) <= 1000

(* an artifact the engine has patched is exactly full *)
C3_Witness ==
    \E t \in Targets :
        /\ backups[t] # NoFile
        /\ artifacts[t] # backups[t]
        /\ CountLines(artifacts[t]) = 1000
        /\ AllIdle

(* block occurs in text as a run of consecutive tokens *)
Contains(text, block) ==
    \E i \in 0..(Len(text) - Len(block)) :
        SubSeq(text, i + 1, i + Len(block)) = block

(* C4: a record this environment marked applied has its rendered block  *)
(* in its target artifact, and a lesson whose apply failed in the       *)
(* command in progress (manual, refused, target missing, size limit) is *)
(* still pending.                                                       *)
C4_AppliedOnlyAfterPatch ==
    /\ \A id \in markedHere :
          (id \in DOMAIN lessons /\ lessons[id].applied)
          => /\ lessons[id].category \in DOMAIN CATEGORY_MAP
             /\ artifacts[CATEGORY_MAP[lessons[id].category]] # NoFile
             /\ Contains(artifacts[CATEGORY_MAP[lessons[id].category]],
                         build_patch_block(lessons[id]))
    /\ \A p \in Procs : \A i \in 1..Len(results[p]) :
          ~results[p][i].success => ~lessons[results[p][i].id].applied

(* one command has patched and marked one lesson and failed another *)
C4_Witness ==
    \E p \in Procs : \E i, j \in 1..Len(results[p]) :
        /\ pc[p] = "done"
        /\ results[p][i].success
        /\ lessons[results[p][i].id].applied
        /\ ~results[p][j].success
        /\ results[p][j].reason \in {"missing", "size"}

(* the step belongs to an auto pipeline run that follows another one    *)
(* with no capture, no other command and no change of the environment   *)
(* or of the shared repository between the two                          *)
SecondRunStep(p) ==
    /\ succ' = 2
    /\ cmd'[p] = "run"
    /\ auto'[p]
    /\ \/ pc[p] = "idle" /\ pc'[p] # "idle"
       \/ pc[p] \notin {"idle", "done"}

(* no block is appended, no record is changed and no commit is made *)
NothingDone(p) ==
    /\ artifacts' = artifacts
    /\ \A id \in DOMAIN lessons :
          id \in DOMAIN lessons' /\ lessons'[id] = lessons[id]
    /\ ~Did(runOps'[p], "commit")

(* C5 as stated: the second of two auto-approved pipeline runs in       *)
(* succession, with no capture and no outside change between the two,   *)
(* appends no block, changes no record and makes no commit.             *)
C5_TwiceInSuccession ==
    [][\A p \in Procs : SecondRunStep(p) => NothingDone(p)]_vars

(* C5, amended: the same, provided also that nothing was published to   *)
(* the shared repository while the first run was under way; the second  *)
(* run then also writes no backup, receives no record and leaves the    *)
(* local history where it was.                                          *)
C5_SecondRunIdle ==
    [][\A p \in Procs :
        SecondRunStep(p) /\ ~published'
        => /\ NothingDone(p)
           /\ backups' = backups
           /\ lessons' = lessons
           /\ head' = head]_vars

(* the second of two such runs has ended on "nothing to sync", after    *)
(* this environment patched a lesson and left another one failing       *)
C5_Witness ==
    \E p \in Procs :
        /\ succ = 2
        /\ ~published
        /\ cmd[p] = "run"
        /\ pc[p] = "done"
        /\ Did(runOps[p], "status")
        /\ ~Tried(runOps[p], "add")
        /\ \E id \in markedHere : lessons[id].applied
        /\ results[p] # <<>>

(* C6: once a record with a given id is applied, no step puts the       *)
(* record with that id back into the pending state.                     *)
C6_OneWay ==
    [][\A id \in DOMAIN lessons :
        lessons[id].applied
        => (id \in DOMAIN lessons' /\ lessons'[id].applied)]_vars

(* C7: no record is ever removed, and every capture adds a record under *)
(* an id no stored record has, leaving every stored record as it was.   *)
C7_UniqueIds ==
    [][/\ DOMAIN lessons \subseteq DOMAIN lessons'
       /\ captures' # captures
          => /\ DOMAIN lessons' # DOMAIN lessons
             /\ \A id \in DOMAIN lessons : lessons'[id] = lessons[id]]_vars

(* C8: every record is pending (applied false, applied_at null) or      *)
(* applied (applied true, applied_at set): applied_at is present        *)
(* exactly when applied is true.                                        *)
C8_TwoStates ==
    \A id \in DOMAIN lessons :
        lessons[id].applied <=> lessons[id].applied_at # None

(* the store holds a record marked here next to a pending one *)
C8_Witness ==
    \E a, b \in DOMAIN lessons :
        /\ a \in markedHere
        /\ lessons[a].applied
        /\ lessons[a].applied_at # None
        /\ ~lessons[b].applied

(* the engine is at work on a lesson whose record is already applied *)
OnApplied(p) ==
    /\ pc[p] \in {"apply", "backup", "append", "mark"}
    /\ Current(p).id \in DOMAIN lessons
    /\ lessons[Current(p).id].applied

(* C9 as stated: apply_lesson followed by mark_applied on a lesson      *)
(* whose record is already applied appends no block, does not rewrite   *)
(* the backup and leaves the record unchanged.                          *)
C9_EngineNoOp ==
    [][\A p \in Procs :
        OnApplied(p) => /\ artifacts' = artifacts
                        /\ backups' = backups
                        /\ lessons' = lessons]_vars

(* C9 amended: apply_all never hands an applied record to the engine:   *)
(* while an apply command runs, no record that is applied changes and   *)
(* no backup or append is made for its lesson.                          *)
C9_ApplyAllSkipsApplied ==
    [][\A p \in Procs :
        cmd[p] = "apply"
        => \A id \in DOMAIN lessons :
              lessons[id].applied
              => /\ lessons'[id] = lessons[id]
                 /\ (artifacts' # artifacts \/ backups' # backups)
                    => Current(p).id # id]_vars

(* an apply command has finished without listing a record that was      *)
(* applied, although its target has room for the block                  *)
C9_Witness ==
    \E p \in Procs : \E id \in DOMAIN lessons :
        /\ cmd[p] = "apply"
        /\ pc[p] = "done"
        /\ lessons[id].applied
        /\ ApplyCheck(lessons[id], artifacts) = "ok"
        /\ \A i \in 1..Len(results[p]) : results[p][i].id # id

(* C10: a pipeline run whose pull did not succeed ends there: nothing   *)
(* is classified or patched, no artifact, backup or record changes and  *)
(* no status, add, commit or push is attempted.                         *)
C10_PullFailureAborts ==
    [][\A p \in Procs :
        (cmd'[p] = "run" /\ ~Did(runOps'[p], "pull"))
        => /\ pc'[p] = "done"
           /\ results'[p] = <<>>
           /\ \A op \in {"status", "add", "commit", "push"} :
                 ~Tried(runOps'[p], op)
           /\ UNCHANGED <<lessons, artifacts, backups, head, origin>>]_vars

(* a run stopped at its pull while a lesson was ready to be patched *)
C10_Witness ==
    \E p \in Procs :
        /\ cmd[p] = "run"
        /\ pc[p] = "done"
        /\ Tried(runOps[p], "pull")
        /\ ~Did(runOps[p], "pull")
        /\ \E id \in DOMAIN lessons :
              ~lessons[id].applied /\ ApplyCheck(lessons[id], artifacts) = "ok"

(* the lessons the running command patched are marked applied and have  *)
(* their blocks in their targets                                        *)
PatchedStays(p) ==
    \A i \in 1..Len(results[p]) :
        results[p][i].success
        => LET id == results[p][i].id
           IN /\ id \in DOMAIN lessons
              /\ lessons[id].applied
              /\ Contains(artifacts[TargetOf(lessons[id])],
                          build_patch_block(lessons[id]))

(* C11: when the push phase of a pipeline run fails, the step that      *)
(* fails and the return of the command leave every artifact, backup and *)
(* lesson record as Patching left them: each lesson patched in the run  *)
(* is still applied and its block is still in place.                    *)
C11_NoRollback ==
    [][\A p \in Procs :
        (/\ cmd[p] = "run"
         /\ pc[p] \in {"push", "done"}
         /\ pc'[p] # pc[p]
         /\ push'[p] # NotCalled \/ push[p] # NotCalled
         /\ ~push'[p].success \/ (pc[p] = "done" /\ ~push[p].success))
        => /\ artifacts' = artifacts
           /\ backups' = backups
           /\ lessons' = lessons
           /\ PatchedStays(p)']_vars

(* a run patched a lesson, committed, and its push was rejected *)
C11_Witness ==
    \E p \in Procs :
        /\ cmd[p] = "run"
        /\ pc[p] = "done"
        /\ push[p].message = "push failed"
        /\ \E i \in 1..Len(results[p]) : results[p][i].success
        /\ PatchedStays(p)

(* every record this environment marked applied is in the shared        *)
(* repository as it is here                                             *)
AppliedReachedRemote ==
    \A id \in markedHere \cap DOMAIN lessons :
        lessons[id].applied
        => id \in DOMAIN origin /\ origin[id] = lessons[id]

(* C12: after a pipeline run whose push phase failed, the next          *)
(* sync_push that reports success with the remote reachable has brought *)
(* the records of the lessons applied here to the shared repository.    *)
C12_NextSyncRetriesPush ==
    [][\A p \in Procs :
        (/\ owed
         /\ gitFail = "none"
         /\ pc[p] = "push"
         /\ pc'[p] = "done"
         /\ push'[p].success)
        => AppliedReachedRemote']_vars

(* the lesson at its turn is in the taxonomy, its target exists and has *)
(* room for its block                                                   *)
HasRoom(lesson) ==
    /\ lesson.category \in DOMAIN CATEGORY_MAP
    /\ artifacts[CATEGORY_MAP[lesson.category]] # NoFile
    /\ CountLines(artifacts[CATEGORY_MAP[lesson.category]])
         + CountLines(build_patch_block(lesson)) <= 1000

(* the loop has gone on to the next lesson, with a result for this one *)
MovedOn(p, ok) ==
    /\ pc'[p] = "loop"
    /\ idx'[p] = idx[p] + 1
    /\ pending'[p] = pending[p]
    /\ Len(results'[p]) = Len(results[p]) + 1
    /\ LastOf(results'[p]).id = Current(p).id
    /\ LastOf(results'[p]).success = ok

(* C13: in an apply_all run every pending lesson gets its turn whatever *)
(* happened to the ones before it: a failure (manual, refused, target   *)
(* missing, size limit) only moves the loop to the next lesson, a ready *)
(* and approved lesson whose target exists and has room at its turn is  *)
(* backed up, appended and marked applied, and the loop ends only when  *)
(* every pending lesson has a result.                                   *)
C13_EachLessonOnItsOwn ==
    [][\A p \in Procs :
        (/\ cmd[p] \in {"apply", "run"}
         /\ pc'[p] # pc[p] \/ idx'[p] # idx[p])
        => LET l == Current(p)
               turn == pc[p] = "loop" /\ idx[p] <= Len(pending[p])
           IN /\ turn
                 => /\ pc'[p] = "apply" \/ MovedOn(p, FALSE)
                    /\ (l.category \in DOMAIN CATEGORY_MAP /\ auto[p])
                       => pc'[p] = "apply" /\ idx'[p] = idx[p]
              /\ pc[p] = "apply"
                 => IF HasRoom(l) THEN pc'[p] = "backup" /\ idx'[p] = idx[p]
                    ELSE MovedOn(p, FALSE)
              /\ pc[p] = "backup" => pc'[p] = "append" /\ idx'[p] = idx[p]
              /\ pc[p] = "append" => pc'[p] = "mark" /\ idx'[p] = idx[p]
              /\ pc[p] = "mark"
                 => /\ MovedOn(p, TRUE)
                    /\ lessons'[l.id].applied
                    /\ Contains(artifacts'[CATEGORY_MAP[l.category]],
                                build_patch_block(l))
              /\ (pc[p] = "loop" /\ pc'[p] \notin {"loop", "apply"})
                 => /\ idx[p] > Len(pending[p])
                    /\ Len(results[p]) = Len(pending[p])]_vars

(* an apply_all run patched and marked a lesson after an earlier lesson *)
(* of the same run had failed                                           *)
C13_Witness ==
    \E p \in Procs : \E i, j \in 1..Len(results[p]) :
        /\ cmd[p] = "apply"
        /\ pc[p] = "done"
        /\ i < j
        /\ ~results[p][i].success
        /\ results[p][j].success
        /\ lessons[results[p][j].id].applied

(* C14: in a pipeline run with the approval gate on, a "no" for a ready *)
(* lesson changes no artifact, no backup and no record and only moves   *)
(* the loop to the next lesson; the refused lesson stays pending for    *)
(* the rest of the run, and the run goes from the loop to the push      *)
(* phase, where sync_push is called.                                    *)
C14_RefusalExcludesOne ==
    [][\A p \in Procs :
        (cmd[p] = "run" /\ ~auto[p])
        => /\ (/\ pc[p] = "loop"
               /\ idx[p] <= Len(pending[p])
               /\ Current(p).category \in DOMAIN CATEGORY_MAP
               /\ idx'[p] # idx[p])
              => /\ MovedOn(p, FALSE)
                 /\ UNCHANGED <<artifacts, backups, lessons>>
                 /\ ~lessons'[Current(p).id].applied
           /\ \A i \in 1..Len(results'[p]) :
                 (pc'[p] # "idle" /\ results'[p][i].reason = "refused")
                 => ~lessons'[results'[p][i].id].applied
           /\ (pc[p] = "loop" /\ pc'[p] \notin {"loop", "apply"})
              => pc'[p] = "push"
           /\ (pc[p] = "push" /\ pc'[p] # "push")
              => pc'[p] = "done" /\ push'[p] # NotCalled]_vars

(* a run with the gate on has pushed after one lesson was refused and a *)
(* later one was approved and patched                                   *)
C14_Witness ==
    \E p \in Procs : \E i, j \in 1..Len(results[p]) :
        /\ cmd[p] = "run"
        /\ ~auto[p]
        /\ pc[p] = "done"
        /\ push[p].message = "push done"
        /\ i < j
        /\ results[p][i].reason = "refused"
        /\ ~lessons[results[p][i].id].applied
        /\ results[p][j].success

(* apply_lesson has returned a failure with the given reason for the    *)
(* lesson at hand and has changed nothing                               *)
FailsClean(p, why) ==
    /\ MovedOn(p, FALSE)
    /\ LastOf(results'[p]).reason = why
    /\ UNCHANGED <<artifacts, backups, lessons>>

(* C15: apply_lesson on a lesson whose category is not in the taxonomy  *)
(* fails as undecidable, and on a lesson of the taxonomy whose target   *)
(* file does not exist fails as target missing; either way no artifact  *)
(* is created or changed, no backup is written and no record changes.   *)
C15_UndecidableAndMissing ==
    [][\A p \in Procs :
        (pc[p] = "apply" /\ pc'[p] # "apply")
        => LET c == Current(p).category
           IN /\ c \notin DOMAIN CATEGORY_MAP
                 => FailsClean(p, "undecidable")
              /\ (c \in DOMAIN CATEGORY_MAP
                  /\ artifacts[CATEGORY_MAP[c]] = NoFile)
                 => /\ FailsClean(p, "missing")
                    /\ artifacts'[CATEGORY_MAP[c]] = NoFile]_vars

(* apply_lesson has just refused a lesson of unknown category, in a     *)
(* store that also holds a lesson whose target file does not exist      *)
C15_Witness ==
    \E p \in Procs :
        /\ Rejected(p, "undecidable")
        /\ cmd[p] = "direct"
        /\ \E id \in DOMAIN lessons :
              ApplyCheck(lessons[id], artifacts) = "missing"

(* apply_lesson has just refused a lesson whose target does not exist *)
C15_WitnessMissing ==
    \E p \in Procs :
        /\ Rejected(p, "missing")
        /\ artifacts[DEEPSCAN] = NoFile
        /\ backups[DEEPSCAN] = NoFile

(* C16: a stored lesson whose category is not in the taxonomy is never  *)
(* classified ready, is never the lesson the patch engine works on in   *)
(* an apply_all or pipeline run, has its block in no artifact and is    *)
(* never applied.                                                       *)
C16_UnknownNeverApplied ==
    /\ \A id \in DOMAIN lessons :
          lessons[id].category \notin DOMAIN CATEGORY_MAP
          => /\ ~lessons[id].applied
             /\ ~analyze_lesson(lessons[id]).ready
             /\ \A t \in Targets :
                   artifacts[t] # NoFile
                   => ~Contains(artifacts[t], build_patch_block(lessons[id]))
    /\ \A p \in Procs :
          (cmd[p] \in {"run", "apply"}
           /\ pc[p] \in {"apply", "backup", "append", "mark"})
          => Current(p).category \in DOMAIN CATEGORY_MAP

(* a pipeline run has left a lesson of unknown category to manual       *)
(* handling and patched another lesson; the first is still pending      *)
C16_Witness ==
    \E p \in Procs : \E i, j \in 1..Len(results[p]) :
        /\ cmd[p] = "run"
        /\ pc[p] = "done"
        /\ results[p][i].reason = "manual"
        /\ lessons[results[p][i].id].category \notin DOMAIN CATEGORY_MAP
        /\ ~lessons[results[p][i].id].applied
        /\ results[p][j].success

(* C17: analyze_lesson gives every pending lesson an analysis: ready,   *)
(* append and the mapped target, of kind skill when the target is under *)
(* skills/ and rule otherwise, exactly when the category is a key of    *)
(* the taxonomy; not ready, unknown, manual and no target otherwise,    *)
(* also when the record has no category. security/auth goes to the rule *)
(* rules/safety.md and workflow/git to the rule rules/memory.md.        *)
C17_AnalyzeTotal ==
    \A p \in Procs :
        (cmd[p] = "analyze" /\ pc[p] = "done")
        => /\ Len(results[p])
                = Cardinality({id \in DOMAIN lessons : ~lessons[id].applied})
           /\ \A i \in 1..Len(results[p]) :
                 LET a == results[p][i]
                     l == lessons[a.id]
                     c == IF "category" \in DOMAIN l THEN l.category ELSE <<>>
                 IN /\ a.category = c
                    /\ a.ready <=> c \in DOMAIN CATEGORY_MAP
                    /\ a.ready
                       => /\ a.action = "append"
                          /\ a.target = CATEGORY_MAP[c]
                          /\ a.target_type = IF a.target[1] = "skills"
                                              THEN "skill" ELSE "rule"
                    /\ ~a.ready
                       => /\ a.action = "manual"
                          /\ a.target = None
                          /\ a.target_type = "unknown"
                    /\ c = <<"security", "auth">>
                       => /\ a.target = <<"rules", "safety.md">>
                          /\ a.target_type = "rule"
                    /\ c = <<"workflow", "git">>
                       => /\ a.target = <<"rules", "memory.md">>
                          /\ a.target_type = "rule"

(* an analyze command has classified a record without category, a       *)
(* security/auth lesson and a lesson that goes to a skill               *)
C17_Witness ==
    \E p \in Procs : \E i, j, k \in 1..Len(results[p]) :
        /\ cmd[p] = "analyze"
        /\ pc[p] = "done"
        /\ results[p][i].category = <<>>
        /\ ~results[p][i].ready
        /\ results[p][j].category = <<"security", "auth">>
        /\ results[p][j].target_type = "rule"
        /\ results[p][k].target_type = "skill"

(* the positions of a pipeline run that belong to Patching, the         *)
(* approval gate included                                               *)
Patching == {"list", "loop", "apply", "backup", "append", "mark"}

(* some pending lesson has a category of the taxonomy *)
SomeReady ==
    \E id \in DOMAIN lessons :
        ~lessons[id].applied /\ lessons[id].category \in DOMAIN CATEGORY_MAP

(* C18: a pipeline run goes from Pulling to Classifying, Patching,      *)
(* Pushing and its end in that order. It ends early only at Pulling,    *)
(* when the pull failed, and after Classifying, exactly when no pending *)
(* lesson is ready, and then nothing was patched and sync_push was not  *)
(* called. Patching is left only for Pushing, whatever the results, and *)
(* each return to the head of its loop is one lesson further in a list  *)
(* that does not change, so Patching comes to its end.                  *)
C18_PhaseOrder ==
    [][\A p \in Procs :
            (cmd'[p] = "run" /\ (pc'[p] # pc[p] \/ idx'[p] # idx[p]))
            => /\ pc[p] = "idle"
                  => /\ pc'[p] \in {"analyze", "done"}
                     /\ pc'[p] = "analyze" <=> Did(runOps'[p], "pull")
               /\ pc[p] = "analyze"
                  => /\ pc'[p] \in {"list", "done"}
                     /\ pc'[p] = "list" <=> SomeReady
                     /\ pc'[p] = "done"
                        => /\ results'[p] = <<>>
                           /\ push'[p] = NotCalled
                           /\ ~Tried(runOps'[p], "status")
                           /\ UNCHANGED <<artifacts, backups, lessons,
                                          head, origin>>
               /\ pc[p] = "list" => pc'[p] = "loop"
               /\ pc[p] = "loop"
                  => /\ pc'[p] \in {"loop", "apply", "push"}
                     /\ pc'[p] = "push" <=> idx[p] > Len(pending[p])
               /\ pc[p] = "apply" => pc'[p] \in {"loop", "backup"}
               /\ (pc[p] \in Patching /\ pc'[p] = "loop" /\ pc[p] # "list")
                  => idx'[p] = idx[p] + 1 /\ pending'[p] = pending[p]
               /\ pc[p] = "backup" => pc'[p] = "append"
               /\ pc[p] = "append" => pc'[p] = "mark"
               /\ pc[p] = "mark" => pc'[p] = "loop"
               /\ pc[p] = "push"
                  => pc'[p] = "done" /\ push'[p] # NotCalled
               /\ pc[p] # "done"]_vars

(* a run with the gate on has reached its end through Pushing although  *)
(* every lesson of its Patching phase failed or was refused             *)
C18_Witness ==
    \E p \in Procs :
        /\ cmd[p] = "run"
        /\ pc[p] = "done"
        /\ push[p] # NotCalled
        /\ Len(results[p]) > 1
        /\ \A i \in 1..Len(results[p]) : ~results[p][i].success
        /\ \E i \in 1..Len(results[p]) : results[p][i].reason = "refused"

(* the git calls the step of p has added to those of its command *)
NewOps(p) == SubSeq(runOps'[p], Len(runOps[p]) + 1, Len(runOps'[p]))

(* p calls sync_push in a git repository *)
SyncPushStep(p) ==
    /\ pc[p] = "push"
    /\ pc'[p] = "done"
    /\ Did(NewOps(p), "rev-parse")

(* C19: sync_push on a repository whose working tree has no change      *)
(* returns success with the "nothing to sync" message and attempts no   *)
(* add, no commit and no push; local history and remote stay as they    *)
(* are.                                                                 *)
C19_NothingToSync ==
    [][\A p \in Procs :
        (SyncPushStep(p) /\ lessons = head)
        => /\ push'[p] = [success |-> TRUE, message |-> "nothing to sync"]
           /\ \A op \in {"add", "commit", "push"} : ~Tried(NewOps(p), op)
           /\ UNCHANGED <<lessons, head, origin>>]_vars

(* a sync command found nothing to sync in a store that holds lessons *)
C19_Witness ==
    \E p \in Procs :
        /\ cmd[p] = "sync"
        /\ pc[p] = "done"
        /\ push[p] = [success |-> TRUE, message |-> "nothing to sync"]
        /\ lessons = head
        /\ DOMAIN lessons # {}

(* the git calls of sync_push in the order of the code *)
PushOrder == <<"rev-parse", "status", "add", "commit", "push">>

(* C20: sync_push with changes in the working tree calls add, commit    *)
(* and push in that order and stops at the first that fails: after a    *)
(* failed add neither commit nor push is attempted, after a failed      *)
(* commit no push; staging, commit and push failure are reported with   *)
(* different messages, and success is reported exactly when the push    *)
(* succeeded.                                                           *)
C20_StageCommitPush ==
    [][\A p \in Procs :
        (SyncPushStep(p) /\ lessons # head)
        => LET ops == NewOps(p)
               n == Len(ops)
               failedAt(op) == ops[n] = <<op, FALSE>>
           IN /\ n \in 3..5
              /\ \A i \in 1..n : ops[i][1] = PushOrder[i]
              /\ \A i \in 1..(n - 1) : ops[i][2]
              /\ n < 5 => ~ops[n][2]
              /\ failedAt("add") <=> push'[p].message = "staging failed"
              /\ failedAt("commit") <=> push'[p].message = "commit failed"
              /\ failedAt("push") <=> push'[p].message = "push failed"
              /\ push'[p].success <=> Did(ops, "push")
              /\ push'[p].success <=> push'[p].message = "push done"
              /\ head' = IF Did(ops, "commit") THEN lessons ELSE head
              /\ origin' = IF Did(ops, "push") THEN lessons ELSE origin]_vars

(* sync_push has stopped at a failed commit *)
C20_Witness ==
    \E p \in Procs :
        /\ pc[p] = "done"
        /\ push[p].message = "commit failed"
        /\ Did(runOps[p], "add")
        /\ Tried(runOps[p], "commit")
        /\ ~Tried(runOps[p], "push")
        /\ lessons # head

(* process p has returned from sync_both *)
SyncDone(p) == cmd[p] = "sync" /\ pc[p] = "done"

(* C21: sync_both calls sync_push only after a successful sync_pull.   *)
(* When the pull failed, nothing is staged, committed or pushed, no     *)
(* result of a push exists and the result is a failure in phase         *)
(* "pull".  When the pull succeeded, sync_push has run, the phase is    *)
(* "complete" and the overall success is the success of the push: the   *)
(* push went through or there was nothing to sync.                      *)
C21_PushOnlyAfterPull ==
    \A p \in Procs :
        SyncDone(p)
        => IF Did(runOps[p], "pull")
           THEN /\ push[p] # NotCalled
                /\ both[p].phase = "complete"
                /\ both[p].push = push[p]
                /\ both[p].success = push[p].success
                /\ both[p].success
                   <=> \/ Did(runOps[p], "push")
                       \/ push[p].message = "nothing to sync"
           ELSE /\ \A op \in {"status", "add", "commit", "push"} :
                      ~Tried(runOps[p], op)
                /\ push[p] = NotCalled
                /\ both[p] =
                      [success |-> FALSE, phase |-> "pull", push |-> NotCalled]

(* sync_both has returned after a failed pull with changes left to push *)
C21_Witness ==
    \E p \in Procs :
        /\ SyncDone(p)
        /\ Tried(runOps[p], "pull")
        /\ ~Did(runOps[p], "pull")
        /\ lessons # head

(* the handle names a process that exists *)
NamesLive(h, pt) == h \notin {NoHandle, Unparsable} /\ Exists(pt, h[2])

(* the handle names a process that does not exist *)
Stale(h, pt) == h \notin {NoHandle, Unparsable} /\ ~Exists(pt, h[2])

(* C22: start_background, when the handle names a live process, fails   *)
(* with "already running", spawns nothing and leaves the handle as it   *)
(* is; otherwise it spawns exactly one detached scheduler process and   *)
(* records its pid in the handle.                                       *)
C22_StartBackground ==
    [][StartBackground
       => IF NamesLive(handle, ptable)
          THEN /\ ~reply'.success
               /\ reply'.message = "already running"
               /\ ptable' = ptable
               /\ handle' = handle
          ELSE \E pid \in FreePids(ptable) :
                  /\ ptable' = [ptable EXCEPT
                                   ![pid] = [kind |-> "bg", at |-> "boot"]]
                  /\ handle' = Named(pid)
                  /\ reply'.success
                  /\ reply'.pid = pid]_vars

(* C23: stop with a stale handle (the named process is gone) removes    *)
(* the handle and reports success; stop with no handle reports "not     *)
(* running"; in every case the handle is absent once stop has returned. *)
C23_StopStale ==
    [][Stop
       => /\ handle' = NoHandle
          /\ Stale(handle, ptable) => reply'.success
          /\ handle = NoHandle
             => ~reply'.success /\ reply'.message = "not running"]_vars

(* C24: start (background), status, stop, status, stop, one after the   *)
(* other from no scheduler running: the first status reports running    *)
(* with the pid of a live process, the status after the stop reports    *)
(* not running, and the second stop returns "not running".              *)
C24_StartStatusStop ==
    [][/\ (script = 1 /\ script' = 2)
          => /\ reply'.op = "status"
             /\ reply'.running
             /\ reply'.pid \in Pids
             /\ Exists(ptable', reply'.pid)
       /\ (script = 3 /\ script' = 4)
          => reply'.op = "status" /\ ~reply'.running
       /\ (script = 4 /\ script' = 5)
          => /\ reply'.op = "stop"
             /\ ~reply'.success
             /\ reply'.message = "not running"
             /\ Loops(ptable') = {}]_vars

(* the five commands have run, the first of them having spawned *)
C24_Witness ==
    /\ script = 5
    /\ reply.op = "stop"
    /\ reply.message = "not running"
    /\ handle = NoHandle

(* C25: status reports running if and only if the handle exists and    *)
(* the process it names is alive: a dead process, an unparsable handle  *)
(* or no handle give not running, a handle naming a process that        *)
(* exists, whoever owns it, gives running.                              *)
C25_RunningIffAlive ==
    [][Status => (reply'.running <=> NamesLive(handle, ptable))]_vars

(* C30: at most one scheduler loop process is alive, and whenever one   *)
(* is alive the handle exists and names it.                             *)
C30_OneLoopNamed ==
    /\ Cardinality(Loops(ptable)) <= 1
    /\ \A pid \in Loops(ptable) : handle = Named(pid)

(* how many of the entries appended so far the log is to hold *)
Window == IF Len(written) > KEEP_ENTRIES THEN KEEP_ENTRIES ELSE Len(written)

(* the successful ones among the last Window entries appended *)
WindowSuccesses ==
    {i \in (Len(written) - Window + 1)..Len(written) : written[i].success}

(* C26: after any sequence of run_once calls the log holds at most 100  *)
(* entries and they are exactly the most recently appended ones, in     *)
(* the order they were written; up to 100 runs it holds them all; the   *)
(* total_runs and the success rate of status are those of that window.  *)
C26_LastHundred ==
    /\ Len(log) <= 100
    /\ Len(log) = Window
    /\ Len(written) <= 100 => log = written
    /\ \A i \in 1..Window : log[i] = written[Len(written) - Window + i]
    /\ reply.op = "status"
       => /\ reply.total_runs = Window
          /\ IF Window = 0 THEN reply.success_rate = NotAvailable
             ELSE LET exact == 100 * Cardinality(WindowSuccesses)
                      shown == reply.success_rate * Window
                  IN /\ 2 * (exact - shown) <= Window
                     /\ 2 * (shown - exact) <= Window

(* more than 100 runs, the failed one among those the log has dropped,  *)
(* and status has answered                                              *)
C26_Witness ==
    /\ Len(written) > KEEP_ENTRIES
    /\ Failed(written) = {1}
    /\ Failed(log) = {}
    /\ reply.op = "status"
    /\ reply.total_runs = KEEP_ENTRIES
    /\ reply.success_rate = 100

(* C27: a scheduled run that exceeds the timeout, whose child fails or  *)
(* cannot be launched, is recorded as exactly one more log entry with   *)
(* success false and does not end the loop: the loop is still alive,    *)
(* goes to its sleep, and from the sleep it goes nowhere but to the     *)
(* next run unless it is interrupted.                                   *)
C27_FailedRunIsLogged ==
    [][\A pid \in Pids :
         /\ \A o \in Outcomes \ {"exit 0"} :
               LoopRun(pid, o)
               => /\ Len(written') = Len(written) + 1
                  /\ LastOf(log') = LastOf(written')
                  /\ Len(log) < 100 => Len(log') = Len(log) + 1
                  /\ SubSeq(log', 1, Len(log') - 1)
                        = SubSeq(log, Len(log) - Len(log') + 2, Len(log))
                  /\ ~LastOf(log').success
                  /\ IsLoop(ptable', pid)
                  /\ ptable'[pid].at = "sleep"
         /\ (IsLoop(ptable, pid) /\ ptable[pid].at = "sleep"
             /\ ptable'[pid] # ptable[pid])
            => \/ IsLoop(ptable', pid) /\ ptable'[pid].at = "run"
               \/ ~Exists(ptable', pid) /\ handle' = NoHandle]_vars

(* a loop whose first run timed out has made its next run *)
C27_Witness ==
    \E pid \in Pids :
        /\ Loops(ptable) = {pid}
        /\ ptable[pid].at = "sleep"
        /\ Len(log) = 2
        /\ log[1].error = "timeout (300s)"
        /\ ~log[1].success
        /\ log[2].n = 2

(* two versions of a record that differ in applied and applied_at at most *)
SameButApplied(old, new) ==
    [new EXCEPT !.applied = old.applied, !.applied_at = old.applied_at] = old

(* C28: apart from captures, a stored lesson record is changed only by  *)
(* the mark-applied step, and only in applied and applied_at: whatever  *)
(* analyze, apply_all, pull, push and whole pipeline runs do, every     *)
(* record stays in the store with the same id, error, solution,         *)
(* category, tags, target_rule, target_skill, source_env and            *)
(* created_at.                                                          *)
C28_OnlyMarkMutates ==
    [][captures' = captures
       => \A id \in DOMAIN lessons :
             /\ id \in DOMAIN lessons'
             /\ SameButApplied(lessons[id], lessons'[id])
             /\ lessons'[id] # lessons[id]
                => /\ \E p \in Procs : pc[p] = "mark" /\ Current(p).id = id
                   /\ ~lessons[id].applied
                   /\ lessons'[id].applied]_vars

(* a lesson of another environment has been pulled, patched and marked *)
C28_Witness ==
    \E id \in markedHere :
        /\ id \in DOMAIN lessons
        /\ lessons[id].applied
        /\ lessons[id].applied_at # None
        /\ lessons[id].source_env = "other"
        /\ \A p \in Procs : pc[p] = "idle"

(* how many blocks with the header of the lesson a text holds *)
BlocksOf(text, id) ==
    Cardinality({i \in 1..Len(text) :
                    /\ Len(text[i]) = 3
                    /\ text[i][1] = "hdr"
                    /\ text[i][2] = id})

(* C29: within one environment the block of a lesson is appended at    *)
(* most once, also when two pipeline runs overlap: no target file      *)
(* holds two blocks of the same lesson id.                             *)
C29_OneBlockPerLesson ==
    \A id \in DOMAIN lessons : \A t \in Targets :
        BlocksOf(artifacts[t], id) <= 1

(* run_once logs the run of process p in this step *)
Recorded(p) ==
    /\ cmd[p] = "run"
    /\ pc[p] # "idle"
    /\ pc'[p] = "idle"
    /\ Len(written') = Len(written) + 1

(* C31: a run-log entry has success true only if the pipeline run it   *)
(* records had no phase failure: a run that stopped at a failed pull,  *)
(* or whose push failed, is logged with success false.                 *)
C31_SuccessMeansNoPhaseFailure ==
    [][\A p \in Procs :
         (Recorded(p) /\ LastOf(written').success)
         => /\ Did(runOps[p], "pull")
            /\ push[p] = NotCalled \/ push[p].success]_vars

(* C32: every completed run_once has put exactly one entry into the    *)
(* run log and removed none of the 100 most recent ones, also when two *)
(* run_once calls overlap: the log holds as many entries as were       *)
(* appended (up to 100), and each of the most recent ones is in it.    *)
C32_NoLostEntry ==
    /\ Len(log) = Window
    /\ \A i \in (Len(written) - Window + 1)..Len(written) :
          \E j \in 1..Len(log) : log[j] = written[i]

(* how many block headers a text holds *)
Headers(text) ==
    Cardinality({i \in 1..Len(text) :
                    Len(text[i]) = 3 /\ text[i][1] = "hdr"})

(* process p is between the backup and the append of an apply to t *)
Appending(p, t) == pc[p] = "append" /\ TargetOf(Current(p)) = t

(* the backup of t is the artifact without its last appended block *)
BackupIsPrevious(t) ==
    LET a == artifacts[t]
        b == backups[t]
    IN IF \E p \in Procs : Appending(p, t) THEN a = b
       ELSE /\ Len(a) > Len(b)
            /\ SubSeq(a, 1, Len(b)) = b
            /\ a[Len(b) + 1] = NL
            /\ Headers(a) = Headers(b) + 1

(* C33: each target has one backup, which every successful apply       *)
(* overwrites: the backup changes only in the backup step of an apply  *)
(* that goes on to append, it then equals the artifact as it is, the   *)
(* append adds one block to exactly that content, and so after any     *)
(* sequence of successful applies the backup is the artifact minus its *)
(* last block; an apply that fails leaves the backup as it was.        *)
C33_BackupIsLastPrevious ==
    [][\A t \in Targets :
         /\ backups'[t] # backups[t]
            => /\ artifacts'[t] = artifacts[t]
               /\ backups'[t] = artifacts[t]
               /\ \E p \in Procs :
                     /\ pc[p] = "backup"
                     /\ TargetOf(Current(p)) = t
                     /\ pc'[p] = "append"
         /\ artifacts'[t] # artifacts[t]
            => /\ backups'[t] = backups[t]
               /\ backups[t] = artifacts[t]
               /\ \E p \in Procs :
                     /\ Appending(p, t)
                     /\ artifacts'[t]
                           = backups[t] \o build_patch_block(Current(p))
         /\ \A p \in Procs :
               (/\ Len(results'[p]) = Len(results[p]) + 1
                /\ ~LastOf(results'[p]).success)
               => backups' = backups
         /\ backups'[t] # NoFile => BackupIsPrevious(t)']_vars

(* two applies to one artifact have succeeded: the backup holds the    *)
(* block of the first and lacks the block of the second                *)
C33_Witness ==
    \E t \in Targets :
        /\ backups[t] # NoFile
        /\ Headers(backups[t]) = 1
        /\ Headers(artifacts[t]) = 2
        /\ SubSeq(artifacts[t], 1, Len(backups[t])) = backups[t]
        /\ AllIdle

=============================================================================
